---- MODULE Spec2Model ----
(***************************************************************************)
(* A model of the maya telemetry sensors (Sensors.cpp): the perf counter   *)
(* groups (PerfStatCounters), the single-core and multi-core performance   *)
(* sensors that tear the groups down and recreate them as units go         *)
(* inactive and active, the shared unit-status object, and the kernel      *)
(* side of the perf descriptors the groups hold.                           *)
(*                                                                         *)
(* Arrays are functions over 0..n-1, as in the source (fds[0] is the group *)
(* leader).  One run constructs one object, chosen by Init (kind).         *)
(***************************************************************************)
EXTENDS Integers, Sequences, FiniteSets, TLC

(* ------------------------------ bounds --------------------------------- *)
\* units (cores) the status object tracks
NumUnits == 2
\* descriptors the kernel grants beyond what the constructed object needs
FdSlack == 1
\* largest number of work ticks any one core performs
MaxWork == 1
\* events the kernel may refuse in one creation pass
MaxFaults == 1
\* largest elapsed time between two samples
MaxDt == 1
\* descriptors 0..MaxBadFd-1 are the ones whose read may come back short
MaxBadFd == 1
\* largest event list of a free-standing counter group
MaxEvents == 2
\* largest cumulative energy reading of one energy file
MaxEnergy == 2
\* largest number of temperature files found at construction
MaxFiles == 2
\* largest temperature reading, in thousands of millidegrees
MaxTemp == 1
CtlDim == 2
MaxSignal == 1
MaxState == 2
MaxInterval == 2
MaxCycles == 3
MaxCalls == 11

(* -------------------------- program constants -------------------------- *)
\* fds[i] of a slot that holds no descriptor
FdClosed == -1
\* fds[i] of a slot whose event the kernel reported unsupported
FdUnsupported == -2
\* group_fd argument that asks for a new group leader
NewLeader == -1
\* width of the CorePerfSensor values vector (makeVector(2))
CoreWidth == 2
\* width of the CPUPerfSensor values vector (makeVector(16))
CPUWidth == 16
\* number of counter groups CPUPerfSensor keeps per core
CPUGroups == 4
\* Sensor::width of a sensor constructed without port names
DefaultWidth == 1
\* the classes of the EEG classifier: 0 is the ictal prototype, 1 the interictal
classes == 2
\* the window sum above which postprocess() reports a seizure
threshold == 9
\* the length of the prediction window of postprocess()
DIM_WINDOW_POST == 10

(* ------------------------------ helpers -------------------------------- *)
\* a function as an explicit table (its values are computed once, here)
Table(f) == f @@ <<>>

Arr(s) == Table([i \in 0..(Len(s) - 1) |-> s[i + 1]])
Size(a) == Cardinality(DOMAIN a)
Fill(n, v) == Table([i \in 0..(n - 1) |-> v])
Range(a) == {a[i] : i \in DOMAIN a}

\* A double is kept exact as a pair <<numerator, denominator>> in lowest terms.
RECURSIVE Gcd(_, _)
Gcd(a, b) == IF b = 0 THEN a ELSE Gcd(b, a % b)
Abs(n) == IF n < 0 THEN -n ELSE n
D(n) == <<n, 1>>
Quot(n, d) == LET g == Gcd(Abs(n), d) IN <<n \div g, d \div g>>
DAdd(a, b) == Quot(a[1] * b[2] + b[1] * a[2], a[2] * b[2])
DSub(a, b) == Quot(a[1] * b[2] - b[1] * a[2], a[2] * b[2])
\* a / b for b > 0
DDiv(a, b) == Quot(a[1] * b[2], a[2] * b[1])
DPos(a) == a[1] > 0
DMul(a, b) == Quot(a[1] * b[1], a[2] * b[2])

\* makeVector(n): n doubles, all 0.0
makeVector(n) == Fill(n, D(0))

\* Vector(std::vector<uint64_t>): the counters as doubles
Vector(v) == Table([i \in DOMAIN v |-> D(v[i])])

\* Vector operator+ and operator- (equal lengths)
VecAdd(a, b) == Table([i \in DOMAIN a |-> DAdd(a[i], b[i])])
VecSub(a, b) == Table([i \in DOMAIN a |-> DSub(a[i], b[i])])

(* event lists of the sensors *)
InstEvents == Arr(<<"HW_INSTRUCTIONS">>)
CacheEvents == Arr(<<"HW_CACHE_REFERENCES", "HW_CACHE_MISSES">>)
CoreGroupEvents == Arr(<<InstEvents, CacheEvents>>)

Group0Events == Arr(<<"HW_REF_CPU_CYCLES", "HW_INSTRUCTIONS",
                      "HW_BRANCH_INSTRUCTIONS", "HW_BRANCH_MISSES">>)
Group1Events == Arr(<<"HW_CACHE_REFERENCES", "HW_CACHE_MISSES", "HW_BUS_CYCLES">>)
Group2Events == Arr(<<"SW_CPU_CLOCK", "SW_TASK_CLOCK", "SW_PAGE_FAULTS",
                      "SW_CPU_MIGRATIONS">>)
Group3Events == Arr(<<"SW_CONTEXT_SWITCHES", "SW_ALIGNMENT_FAULTS",
                      "SW_EMULATION_FAULTS">>)
CPUGroupEvents == Arr(<<Group0Events, Group1Events, Group2Events, Group3Events>>)

EventsPerCore == Size(Group0Events) + Size(Group1Events)
                 + Size(Group2Events) + Size(Group3Events)

AllEvents == UNION {Range(CPUGroupEvents[j]) : j \in DOMAIN CPUGroupEvents}
             \cup UNION {Range(CoreGroupEvents[j]) : j \in DOMAIN CoreGroupEvents}

Units == 0..(NumUnits - 1)

(* ----------------------------- the state ------------------------------- *)
VARIABLES
    kind,        \* the object this run constructs: a sensor variant or a bare group
    life,        \* "none" before construction, "live", "dead" after destruction
    proc,        \* "running", "exited" (std::exit(EXIT_FAILURE)) or "crashed"
    unitStatus,  \* SystemStatus::unitStatus of the shared coreStatus object
    totalActiveUnits, \* SystemStatus::totalActiveUnits
    coreIds,     \* CPUPerfSensor::coreIds (CorePerfSensor::coreId is coreIds[0])
    gs,          \* the counter groups: gs[p][j] is group j of the unit at position p
    sd,          \* the shut-down flags, one per position
    kfd,         \* the kernel's table of open perf descriptors
    width,       \* Sensor::width
    values,      \* Sensor::values
    prevValues,  \* Sensor::prevValues
    out,         \* the vector last written to the sensor's output port
    agg,         \* the aggregate vectors agg0..agg3 of the CPUPerfSensor cycle
    dt,          \* deltaTime of the cycle
    pc,          \* Idle, or At(i): a CPUPerfSensor cycle is about to test position i
    log,         \* the system calls the last operation issued, in order
    did,         \* per position, what the last cycle did for the unit
    obs,         \* per position, the status the last cycle read for the unit
    flipped,     \* per position: the unit was set inactive since the last cycle
    vers,        \* the status vectors coreStatus has held during the cycle in progress
    lastDelta,   \* what the last getDeltaValues() call returned
    cycle,       \* the parity of the number of CorePerfSensor sampling cycles run
    phase,       \* how far the calls on a free-standing group have gone through
                 \* disable(), createCounterFds(), reenable(), updateCounters()
    groupNames,    \* the event list a free-standing group was constructed with
    energyCtr,   \* CPUPowerSensor::energyCtr, DRAMPowerSensor::energyCtr
    files,       \* how many files energyFileNames or tempFileNames holds
    ctl,         \* the RobustController: its matrices, scales, state and ports
    latencyResults, \* the vector the last measureReadLatency() returned
    predictions, \* main()'s predictions[]: the window postprocess() works on
    printed,     \* which branch of postprocess() printed last: "Ictal" or "prevision"
    history      \* the classes handed to postprocess() so far, oldest first

vars == <<kind, life, proc, unitStatus, totalActiveUnits, coreIds, gs, sd, kfd, width,
          values, prevValues, out, agg, dt, pc, log, did, obs, flipped, vers,
          lastDelta, cycle, phase,
          groupNames, energyCtr, files, ctl, latencyResults,
          predictions, printed, history>>

\* descriptor numbers the kernel can hand out to this run (RLIMIT_NOFILE): what
\* the constructed object needs, and FdSlack more
FdsNeeded == IF kind = "group" THEN Size(groupNames)
             ELSE IF kind = "core" THEN Size(InstEvents) + Size(CacheEvents)
             ELSE IF kind = "cpu" THEN Size(coreIds) * EventsPerCore
             ELSE 0
FdNumbers == 0..(FdsNeeded + FdSlack - 1)

\* the values of pc
Idle == <<>>
At(i) == <<i>>

(* ------------------------- the kernel's side --------------------------- *)
(* tab maps each open descriptor number to its perf event: the core it     *)
(* counts on, its count, whether it is enabled, and its group leader.  A   *)
(* sibling counts only while its leader is enabled too.                    *)

Exited(w) == [w EXCEPT !.proc = "exited"]
Crashed(w) == [w EXCEPT !.proc = "crashed"]
Logged(w, rec) == [w EXCEPT !.log = Append(@, rec)]

LowestFree(tab) == CHOOSE f \in FdNumbers \ DOMAIN tab :
                       \A h \in FdNumbers \ DOMAIN tab : f <= h

\* syscall(__NR_perf_event_open, &attr, -1, coreId, groupFd, 0): the value
\* returned, errno, and the descriptor table afterwards.  ans is what the
\* kernel answers for each event in this pass.
PerfEventOpen(tab, ev, coreId, groupFd, disabled, ans) ==
    IF ans[ev] = "EACCES" THEN [ret |-> -1, errno |-> "EACCES", kfd |-> tab]
    ELSE IF FdNumbers \ DOMAIN tab = {} THEN [ret |-> -1, errno |-> "EMFILE", kfd |-> tab]
    ELSE IF groupFd # NewLeader /\ groupFd \notin DOMAIN tab
         THEN [ret |-> -1, errno |-> "EBADF", kfd |-> tab]
    ELSE IF ans[ev] = "ENOENT" THEN [ret |-> -1, errno |-> "ENOENT", kfd |-> tab]
    ELSE LET fd == LowestFree(tab)
             e == [core |-> coreId, ev |-> ev, count |-> 0, en |-> ~disabled,
                   leader |-> IF groupFd = NewLeader THEN fd ELSE groupFd]
         IN [ret |-> fd, errno |-> "",
             kfd |-> Table([f \in DOMAIN tab \cup {fd} |-> IF f = fd THEN e ELSE tab[f]])]

\* ioctl(fd, PERF_EVENT_IOC_RESET / _ENABLE / _DISABLE); EBADF is ignored
Ioctl(tab, fd, op) ==
    IF fd \notin DOMAIN tab THEN tab
    ELSE CASE op = "reset" -> [tab EXCEPT ![fd].count = 0]
           [] op = "enable" -> [tab EXCEPT ![fd].en = TRUE]
           [] op = "disable" -> [tab EXCEPT ![fd].en = FALSE]

\* close(fd): the siblings of a closed leader become their own leaders
Close(tab, fd) ==
    Table([f \in DOMAIN tab \ {fd} |->
             IF tab[f].leader = fd THEN [tab[f] EXCEPT !.leader = f] ELSE tab[f]])

Counting(tab, f) == tab[f].en /\ tab[tab[f].leader].en

\* core c retires one unit of work: every counting event on it advances
Tick(tab, c) ==
    Table([f \in DOMAIN tab |->
             IF tab[f].core = c /\ Counting(tab, f)
             THEN [tab[f] EXCEPT !.count = @ + 1] ELSE tab[f]])

(* --------------------------- PerfStatCounters -------------------------- *)
(* A world w carries what a call can change: the groups gs[p][j] (unit     *)
(* position p, group j), the shut-down flags sd, the descriptor table kfd, *)
(* the process state proc and log, the system calls issued so far.         *)

NoGroup == [fds |-> Fill(0, 0), values |-> Fill(0, 0), prevValues |-> Fill(0, 0)]

\* one system call: live tells whether fd was an open descriptor when the call
\* was made (for an open: whether it returned one)
Call(op, fd, arg, live, p, j, i) ==
    [op |-> op, fd |-> fd, arg |-> arg, live |-> live, pos |-> p, grp |-> j, slot |-> i,
     err |-> ""]

\* the rest of an operation, F, once the process has got as far as w: nothing
\* runs after std::exit or a crash
Then(w, F(_)) == IF w.proc # "running" THEN w ELSE F(w)

\* createCounterFds after perf_event_open has answered r for event i: fds[i]
\* is assigned, and the ENOENT and fatal branches follow.  ub is what the build
\* does on the out-of-bounds write prevValues[i] = 0.
Answered(w, r, groupFd, p, j, i, ub) ==
    LET w1 == Logged([w EXCEPT !.kfd = r.kfd, !.gs[p][j].fds[i] = r.ret],
                     [Call("open", r.ret, groupFd, r.ret # -1, p, j, i)
                         EXCEPT !.err = r.errno])
        w2 == [w1 EXCEPT !.gs[p][j].fds[i] = FdUnsupported, !.gs[p][j].values[i] = 0]
    IN IF r.ret # -1 THEN w1
       ELSE IF r.errno # "ENOENT" THEN Exited(w1)
       ELSE IF i \in DOMAIN w.gs[p][j].prevValues
            THEN [w2 EXCEPT !.gs[p][j].prevValues[i] = 0]
       ELSE IF ub = "crash" THEN Crashed(w2)
       ELSE w2

\* one iteration of createCounterFds's loop: the leader is opened disabled and
\* with no group, a sibling enabled and with fds[0] as its group
CreateOne(w, p, j, coreId, ctrNames, ans, ub, i) ==
    LET groupFd == IF i = 0 THEN NewLeader ELSE w.gs[p][j].fds[0]
    IN Answered(w, PerfEventOpen(w.kfd, ctrNames[i], coreId, groupFd, i = 0, ans),
                groupFd, p, j, i, ub)

RECURSIVE CreateLoop(_, _, _, _, _, _, _, _)
CreateLoop(w, p, j, coreId, ctrNames, ans, ub, i) ==
    IF i \notin DOMAIN ctrNames THEN w
    ELSE Then(CreateOne(w, p, j, coreId, ctrNames, ans, ub, i),
              LAMBDA x : CreateLoop(x, p, j, coreId, ctrNames, ans, ub, i + 1))

\* a faulty createCounterFds: the lengths are compared after the loop
createCounterFdsLateCheck(w, p, j, coreId, typeIds, ctrNames, ans, ub) ==
    Then(CreateLoop(w, p, j, coreId, ctrNames, ans, ub, 0),
         LAMBDA x : IF Size(typeIds) # Size(ctrNames) THEN Exited(x) ELSE x)

createCounterFds(w, p, j, coreId, typeIds, ctrNames, ans, ub) ==
    IF Size(typeIds) # Size(ctrNames) THEN Exited(w)
    ELSE CreateLoop(w, p, j, coreId, ctrNames, ans, ub, 0)

\* PerfStatCounters::PerfStatCounters: prevValues is still empty while
\* createCounterFds runs
NewPerfStatCounters(w, p, j, coreId, typeIds, ctrNames, ans, ub) ==
    IF Size(typeIds) # Size(ctrNames) THEN Exited(w)
    ELSE Then(createCounterFds([w EXCEPT !.gs[p][j] =
                                     [fds |-> Fill(Size(ctrNames), FdClosed),
                                      values |-> Fill(Size(ctrNames), 0),
                                      prevValues |-> Fill(0, 0)]],
                               p, j, coreId, typeIds, ctrNames, ans, ub),
              LAMBDA x : [x EXCEPT !.gs[p][j].prevValues = x.gs[p][j].values])

\* the loop of enable() (reset = TRUE) and of reenable() (reset = FALSE)
RECURSIVE EnableLoop(_, _, _, _, _)
EnableLoop(w, p, j, i, reset) ==
    IF i \notin DOMAIN w.gs[p][j].fds THEN w
    ELSE LET fd == w.gs[p][j].fds[i]
             live == fd \in DOMAIN w.kfd
             w1 == IF reset
                   THEN Logged([w EXCEPT !.kfd = Ioctl(@, fd, "reset")],
                               Call("reset", fd, 0, live, p, j, i))
                   ELSE w
             w2 == Logged([w1 EXCEPT !.kfd = Ioctl(@, fd, "enable")],
                          Call("enable", fd, 0, live, p, j, i))
         IN EnableLoop(IF fd >= 0 THEN w2 ELSE w, p, j, i + 1, reset)

\* a faulty reenable(): the counters are reset as well
reenableResetting(w, p, j) == EnableLoop(w, p, j, 0, TRUE)

enable(w, p, j) == EnableLoop(w, p, j, 0, TRUE)

reenable(w, p, j) == EnableLoop(w, p, j, 0, FALSE)

\* a faulty loop of disable(): the descriptors are closed but fds[i] keeps
\* their numbers
RECURSIVE DisableLoopKeeping(_, _, _, _)
DisableLoopKeeping(w, p, j, i) ==
    IF i \notin DOMAIN w.gs[p][j].fds THEN w
    ELSE LET fd == w.gs[p][j].fds[i]
             live == fd \in DOMAIN w.kfd
             w1 == Logged(Logged([w EXCEPT !.kfd = Close(Ioctl(@, fd, "disable"), fd),
                                           !.gs[p][j].values[i] = 0,
                                           !.gs[p][j].prevValues[i] = 0],
                                 Call("disable", fd, 0, live, p, j, i)),
                          Call("close", fd, 0, live, p, j, i))
         IN DisableLoopKeeping(IF fd >= 0 THEN w1 ELSE w, p, j, i + 1)

\* a faulty loop of disable(): the descriptors are closed and the values are
\* left as they were
RECURSIVE DisableLoopStale(_, _, _, _)
DisableLoopStale(w, p, j, i) ==
    IF i \notin DOMAIN w.gs[p][j].fds THEN w
    ELSE LET fd == w.gs[p][j].fds[i]
             live == fd \in DOMAIN w.kfd
             w1 == Logged(Logged([w EXCEPT !.kfd = Close(Ioctl(@, fd, "disable"), fd),
                                           !.gs[p][j].fds[i] = FdClosed],
                                 Call("disable", fd, 0, live, p, j, i)),
                          Call("close", fd, 0, live, p, j, i))
         IN DisableLoopStale(IF fd >= 0 THEN w1 ELSE w, p, j, i + 1)

\* a faulty loop of disable(): every slot is treated, whatever it holds
RECURSIVE DisableLoopUnguarded(_, _, _, _)
DisableLoopUnguarded(w, p, j, i) ==
    IF i \notin DOMAIN w.gs[p][j].fds THEN w
    ELSE LET fd == w.gs[p][j].fds[i]
             live == fd \in DOMAIN w.kfd
             w1 == Logged(Logged([w EXCEPT !.kfd = Close(Ioctl(@, fd, "disable"), fd),
                                           !.gs[p][j].fds[i] = FdClosed,
                                           !.gs[p][j].values[i] = 0,
                                           !.gs[p][j].prevValues[i] = 0],
                                 Call("disable", fd, 0, live, p, j, i)),
                          Call("close", fd, 0, live, p, j, i))
         IN DisableLoopUnguarded(w1, p, j, i + 1)

RECURSIVE DisableLoop(_, _, _, _)
DisableLoop(w, p, j, i) ==
    IF i \notin DOMAIN w.gs[p][j].fds THEN w
    ELSE LET fd == w.gs[p][j].fds[i]
             live == fd \in DOMAIN w.kfd
             w1 == Logged(Logged([w EXCEPT !.kfd = Close(Ioctl(@, fd, "disable"), fd),
                                           !.gs[p][j].fds[i] = FdClosed,
                                           !.gs[p][j].values[i] = 0,
                                           !.gs[p][j].prevValues[i] = 0],
                                 Call("disable", fd, 0, live, p, j, i)),
                          Call("close", fd, 0, live, p, j, i))
         IN DisableLoop(IF fd >= 0 THEN w1 ELSE w, p, j, i + 1)

disable(w, p, j) == DisableLoop(w, p, j, 0)

\* a faulty loop of updateCounters: a short read is passed over and the loop
\* goes on to the next slot
RECURSIVE UpdateLoopLenient(_, _, _, _, _)
UpdateLoopLenient(w, p, j, i, badFd) ==
    IF i \notin DOMAIN w.gs[p][j].fds THEN w
    ELSE LET fd == w.gs[p][j].fds[i]
             live == fd \in DOMAIN w.kfd
             short == ~live \/ fd = badFd
             w1 == Logged(w, [Call("read", fd, 0, live, p, j, i)
                                 EXCEPT !.err = IF short THEN "short" ELSE ""])
         IN IF fd < 0
            THEN UpdateLoopLenient([w EXCEPT !.gs[p][j].values[i] = 0], p, j, i + 1, badFd)
            ELSE IF short THEN UpdateLoopLenient(w1, p, j, i + 1, badFd)
            ELSE UpdateLoopLenient([w1 EXCEPT !.gs[p][j].values[i] = w.kfd[fd].count],
                                   p, j, i + 1, badFd)

\* the loop of updateCounters from slot i on; a read of badFd comes back short
RECURSIVE UpdateLoop(_, _, _, _, _)
UpdateLoop(w, p, j, i, badFd) ==
    IF i \notin DOMAIN w.gs[p][j].fds THEN w
    ELSE LET fd == w.gs[p][j].fds[i]
             live == fd \in DOMAIN w.kfd
             w1 == Logged(w, [Call("read", fd, 0, live, p, j, i)
                                 EXCEPT !.err = IF ~live \/ fd = badFd THEN "short" ELSE ""])
         IN IF fd < 0
            THEN UpdateLoop([w EXCEPT !.gs[p][j].values[i] = 0], p, j, i + 1, badFd)
            ELSE IF ~live \/ fd = badFd THEN Exited(w1)
            ELSE UpdateLoop([w1 EXCEPT !.gs[p][j].values[i] = w.kfd[fd].count],
                            p, j, i + 1, badFd)

updateCounters(w, p, j, badFd) ==
    UpdateLoop([w EXCEPT !.gs[p][j].prevValues = w.gs[p][j].values], p, j, 0, badFd)

\* a faulty getDeltaValues: the current values, with nothing subtracted
getDeltaValuesCurrent(g) == Vector(g.values)

getDeltaValues(g) == VecSub(Vector(g.values), Vector(g.prevValues))

getValue(g, ctrNum) == D(g.values[ctrNum])

\* what a sensor call can change, as one record
World == [gs |-> gs, sd |-> sd, kfd |-> kfd, log |-> <<>>, proc |-> proc,
          values |-> values, agg |-> agg, did |-> did, obs |-> obs]

Commit(w) == /\ gs' = w.gs
             /\ sd' = w.sd
             /\ kfd' = w.kfd
             /\ log' = w.log
             /\ proc' = w.proc
             /\ values' = w.values
             /\ agg' = w.agg
             /\ did' = w.did
             /\ obs' = w.obs

\* SystemStatus::getUnitStatus
getUnitStatus(status, unitId) == status[unitId]

\* the status a cycle read for a unit, as recorded in obs
Obs(b) == IF b THEN "on" ELSE "off"

(* ---------------------------- CorePerfSensor --------------------------- *)
HwTypes(n) == Fill(n, "PERF_TYPE_HARDWARE")
SwTypes(n) == Fill(n, "PERF_TYPE_SOFTWARE")

\* a faulty handleShutDown: the flag is set and the groups are left as they are
CoreHandleShutDownFlagOnly(w) == [w EXCEPT !.sd[0] = TRUE]

CoreHandleShutDown(w) ==
    [disable(disable(w, 0, 0), 0, 1) EXCEPT !.sd[0] = TRUE]

\* a faulty handleReactivation: the groups are recreated and re-enabled but the
\* flag is left set
CoreHandleReactivationFlagKept(w, coreId, ans, ub) ==
    Then(Then(createCounterFds(w, 0, 0, coreId, HwTypes(1), InstEvents, ans, ub),
              LAMBDA x : createCounterFds(x, 0, 1, coreId, HwTypes(2), CacheEvents, ans, ub)),
         LAMBDA x : reenable(reenable(x, 0, 0), 0, 1))

CoreHandleReactivation(w, coreId, ans, ub) ==
    Then(Then(createCounterFds(w, 0, 0, coreId, HwTypes(1), InstEvents, ans, ub),
              LAMBDA x : createCounterFds(x, 0, 1, coreId, HwTypes(2), CacheEvents, ans, ub)),
         LAMBDA x : [reenable(reenable(x, 0, 0), 0, 1) EXCEPT !.sd[0] = FALSE])

\* a faulty end of the else branch: the miss ratio per instruction, without
\* the factor of a thousand
CoreOutputsPerInstruction(w, delta) ==
    LET perCoreNewInstVals == getDeltaValues(w.gs[0][0])
        perCoreNewCacheCtrVals == getDeltaValues(w.gs[0][1])
        bips == IF delta > 0 THEN DDiv(perCoreNewInstVals[0], D(delta)) ELSE D(0)
        mpki == IF DPos(perCoreNewInstVals[0])
                THEN DDiv(perCoreNewCacheCtrVals[1], perCoreNewInstVals[0])
                ELSE D(0)
    IN [w EXCEPT !.values = [makeVector(CoreWidth) EXCEPT ![0] = bips, ![1] = mpki]]

\* the end of the else branch of CorePerfSensor::readFromSystem: BIPS and MPKI
\* from the deltas of the two groups
CoreOutputs(w, delta) ==
    LET perCoreNewInstVals == getDeltaValues(w.gs[0][0])
        perCoreNewCacheCtrVals == getDeltaValues(w.gs[0][1])
        bips == IF delta > 0 THEN DDiv(perCoreNewInstVals[0], D(delta)) ELSE D(0)
        mpki == IF DPos(perCoreNewInstVals[0])
                THEN DDiv(Quot(perCoreNewCacheCtrVals[1][1] * 1000,
                               perCoreNewCacheCtrVals[1][2]),
                          perCoreNewInstVals[0])
                ELSE D(0)
    IN [w EXCEPT !.values = [makeVector(CoreWidth) EXCEPT ![0] = bips, ![1] = mpki]]

\* CorePerfSensor::readFromSystem.  delta is deltaTime, badFd the descriptor
\* whose read comes back short (if any)
CoreReadFromSystem(w, status, coreId, delta, badFd, ans, ub) ==
    LET wo == [w EXCEPT !.obs[0] = Obs(getUnitStatus(status, coreId))]
        zeros(x) == [x EXCEPT !.values = makeVector(CoreWidth)]
    IN IF getUnitStatus(status, coreId) = FALSE /\ ~w.sd[0]
       THEN Then(CoreHandleShutDown([wo EXCEPT !.did[0] = "shutdown"]), zeros)
       ELSE IF getUnitStatus(status, coreId) = TRUE /\ w.sd[0]
       THEN Then(CoreHandleReactivation([wo EXCEPT !.did[0] = "reactivate"],
                                        coreId, ans, ub), zeros)
       ELSE Then(Then(updateCounters([wo EXCEPT !.did[0] = "update"], 0, 0, badFd),
                      LAMBDA x : updateCounters(x, 0, 1, badFd)),
                 LAMBDA x : CoreOutputs(x, delta))

\* CorePerfSensor::CorePerfSensor, after the Sensor base: the two groups,
\* enable(), and a first readFromSystem()
CoreConstruct(w, status, coreId, delta, badFd, ans, ub) ==
    Then(Then(NewPerfStatCounters([w EXCEPT !.gs = Fill(1, Fill(2, NoGroup)),
                                            !.sd = Fill(1, FALSE),
                                            !.values = makeVector(CoreWidth)],
                                  0, 0, coreId, HwTypes(1), InstEvents, ans, ub),
              LAMBDA x : NewPerfStatCounters(x, 0, 1, coreId, HwTypes(2), CacheEvents,
                                             ans, ub)),
         LAMBDA x : CoreReadFromSystem(enable(enable(x, 0, 0), 0, 1),
                                       status, coreId, delta, badFd, ans, ub))

\* CorePerfSensor::~CorePerfSensor
CoreDestroy(w) == disable(disable(w, 0, 0), 0, 1)

(* ----------------------------- CPUPerfSensor --------------------------- *)
CPUTypes(j) == IF j < 2 THEN HwTypes(Size(CPUGroupEvents[j]))
               ELSE SwTypes(Size(CPUGroupEvents[j]))

\* disable() on groups j.. of the unit stored at idx
RECURSIVE DisableGroups(_, _, _)
DisableGroups(w, idx, j) ==
    IF j \notin DOMAIN w.gs[idx] THEN w
    ELSE DisableGroups(disable(w, idx, j), idx, j + 1)

\* a faulty handleShutDown: the flag is set and the groups are left alone
CPUHandleShutDownFlagOnly(w, coreId, ub) ==
    LET idx == coreId
    IN IF idx \notin DOMAIN w.gs
       THEN IF ub = "crash" THEN Crashed(w) ELSE w
       ELSE [w EXCEPT !.sd[idx] = TRUE]

\* CPUPerfSensor::handleShutDown(coreId): the core id is used as the index.
\* An index outside the arrays is undefined behaviour: ub is what the build does.
CPUHandleShutDown(w, coreId, ub) ==
    LET idx == coreId
    IN IF idx \notin DOMAIN w.gs
       THEN IF ub = "crash" THEN Crashed(w) ELSE w
       ELSE [DisableGroups(w, idx, 0) EXCEPT !.sd[idx] = TRUE]

RECURSIVE CreateGroups(_, _, _, _, _, _)
CreateGroups(w, idx, coreId, j, ans, ub) ==
    IF j \notin DOMAIN CPUGroupEvents THEN w
    ELSE Then(createCounterFds(w, idx, j, coreId, CPUTypes(j), CPUGroupEvents[j], ans, ub),
              LAMBDA x : CreateGroups(x, idx, coreId, j + 1, ans, ub))

RECURSIVE ReenableGroups(_, _, _)
ReenableGroups(w, idx, j) ==
    IF j >= CPUGroups THEN w
    ELSE ReenableGroups(reenable(w, idx, j), idx, j + 1)

\* CPUPerfSensor::handleReactivation(coreId)
CPUHandleReactivation(w, coreId, ans, ub) ==
    LET idx == coreId
    IN IF idx \notin DOMAIN w.gs
       THEN IF ub = "crash" THEN Crashed(w) ELSE w
       ELSE Then(CreateGroups(w, idx, coreId, 0, ans, ub),
                 LAMBDA x : [ReenableGroups(x, idx, 0) EXCEPT !.sd[idx] = FALSE])

\* the inner loop of readFromSystem: update group j of position i and add its
\* delta to agg[j]
RECURSIVE UpdateGroups(_, _, _, _)
UpdateGroups(w, i, j, badFd) ==
    IF j >= CPUGroups THEN w
    ELSE Then(Then(updateCounters(w, i, j, badFd),
                   LAMBDA x : [x EXCEPT !.agg[j] = VecAdd(@, getDeltaValues(x.gs[i][j]))]),
              LAMBDA x : UpdateGroups(x, i, j + 1, badFd))

\* one iteration of the loop over coreIds in readFromSystem
CPUUnit(w, ids, status, i, badFd, ans, ub) ==
    LET coreId == ids[i]
        wo == [w EXCEPT !.obs[i] = Obs(getUnitStatus(status, coreId))]
    IN IF getUnitStatus(status, coreId) = FALSE
       THEN IF ~w.sd[i]
            THEN CPUHandleShutDown([wo EXCEPT !.did[i] = "shutdown"], coreId, ub)
            ELSE [wo EXCEPT !.did[i] = "skip"]
       ELSE Then(IF w.sd[i]
                 THEN CPUHandleReactivation([wo EXCEPT !.did[i] = "reactivate+update"],
                                            coreId, ans, ub)
                 ELSE [wo EXCEPT !.did[i] = "update"],
                 LAMBDA x : UpdateGroups(x, i, 0, badFd))

\* the start of readFromSystem: the four aggregates are zero vectors
CPUBegin(w, n) ==
    [w EXCEPT !.agg = Table([j \in DOMAIN CPUGroupEvents |->
                                 makeVector(Size(CPUGroupEvents[j]))]),
              !.did = Fill(n, "none"), !.obs = Fill(n, "none")]

\* a faulty CPUFinish: the first aggregate is published as it is
CPUFinishNarrow(w, delta) == [w EXCEPT !.values = w.agg[0]]

\* the end of readFromSystem: the sixteen outputs from the aggregates
CPUFinish(w, delta) ==
    LET agg0 == w.agg[0]
        agg1 == w.agg[1]
        agg2 == w.agg[2]
        agg3 == w.agg[3]
    IN [w EXCEPT !.values =
         [w.values EXCEPT
            ![0] = agg0[0],
            ![1] = IF delta > 0 THEN DDiv(agg0[1], D(delta)) ELSE D(0),
            ![2] = agg0[3],
            ![3] = IF DPos(agg0[2]) THEN DDiv(agg0[3], agg0[2]) ELSE D(0),
            ![4] = agg1[0],
            ![5] = agg1[1],
            ![6] = IF DPos(agg1[0]) THEN DDiv(agg1[1], agg1[0]) ELSE D(0),
            ![7] = agg1[2],
            ![8] = IF DPos(agg0[1]) THEN DDiv(agg1[2], agg0[1]) ELSE D(0),
            ![9] = agg2[0],
            ![10] = agg2[1],
            ![11] = agg2[2],
            ![12] = agg2[3],
            ![13] = agg3[0],
            ![14] = agg3[1],
            ![15] = agg3[2]]]

RECURSIVE CPULoop(_, _, _, _, _, _, _)
CPULoop(w, ids, status, i, badFd, ans, ub) ==
    IF i \notin DOMAIN ids THEN w
    ELSE Then(CPUUnit(w, ids, status, i, badFd, ans, ub),
              LAMBDA x : CPULoop(x, ids, status, i + 1, badFd, ans, ub))

\* CPUPerfSensor::readFromSystem run to its end against one status vector
CPUReadFromSystem(w, ids, status, delta, badFd, ans, ub) ==
    Then(CPULoop(CPUBegin(w, Size(ids)), ids, status, 0, badFd, ans, ub),
         LAMBDA x : CPUFinish(x, delta))

\* the constructor's loop body for position i: four groups, then enable()
RECURSIVE NewGroups(_, _, _, _, _, _)
NewGroups(w, i, coreId, j, ans, ub) ==
    IF j \notin DOMAIN CPUGroupEvents THEN w
    ELSE Then(NewPerfStatCounters(w, i, j, coreId, CPUTypes(j), CPUGroupEvents[j], ans, ub),
              LAMBDA x : NewGroups(x, i, coreId, j + 1, ans, ub))

RECURSIVE EnableGroups(_, _, _)
EnableGroups(w, i, j) ==
    IF j >= CPUGroups THEN w
    ELSE EnableGroups(enable(w, i, j), i, j + 1)

RECURSIVE CPUConstructLoop(_, _, _, _, _)
CPUConstructLoop(w, ids, i, ans, ub) ==
    IF i \notin DOMAIN ids THEN w
    ELSE Then(Then(NewGroups(w, i, ids[i], 0, ans, ub), LAMBDA x : EnableGroups(x, i, 0)),
              LAMBDA x : CPUConstructLoop(x, ids, i + 1, ans, ub))

\* CPUPerfSensor::CPUPerfSensor, after the Sensor base
CPUConstruct(w, ids, ans, ub) ==
    CPUConstructLoop([w EXCEPT !.gs = Fill(Size(ids), Fill(CPUGroups, NoGroup)),
                               !.sd = Fill(Size(ids), FALSE),
                               !.values = makeVector(CPUWidth)],
                     ids, 0, ans, ub)

\* CPUPerfSensor::~CPUPerfSensor
RECURSIVE CPUDestroy(_, _)
CPUDestroy(w, i) ==
    IF i \notin DOMAIN w.gs THEN w
    ELSE CPUDestroy(DisableGroups(w, i, 0), i + 1)

(* ------------------- Time, power and temperature sensors --------------- *)
\* Time::readFromSystem: the wall clock reads t
TimeReadFromSystem(w, t) == [w EXCEPT !.values[0] = D(t)]

\* CPUPowerSensor::readFromSystem and DRAMPowerSensor::readFromSystem: the
\* energy files read e[0], e[1], ...; the result and the new energyCtr
RECURSIVE SumTo(_, _)
SumTo(e, n) == IF n = 0 THEN 0 ELSE e[n - 1] + SumTo(e, n - 1)

\* a faulty power acquisition: a cumulative counter that went down is taken
\* for no energy at all
PowerReadFromSystemClamped(w, ctr, e, delta) ==
    LET ctrValue == SumTo(e, Size(e))
        newEnergy == IF ctrValue < ctr THEN 0 ELSE ctrValue - ctr
    IN [w |-> [w EXCEPT !.values[0] = IF delta > 0 THEN DDiv(D(newEnergy), D(delta))
                                                   ELSE D(0)],
        energyCtr |-> ctrValue]

PowerReadFromSystem(w, ctr, e, delta) ==
    LET ctrValue == SumTo(e, Size(e))
        newEnergy == ctrValue - ctr
    IN [w |-> [w EXCEPT !.values[0] = IF delta > 0 THEN DDiv(D(newEnergy), D(delta))
                                                   ELSE D(0)],
        energyCtr |-> ctrValue]

\* CPUTempSensor::readFromSystem: the temperature files read t[0], t[1], ...
\* millidegrees; the running maximum starts at 0.0
RECURSIVE MaxFrom(_, _, _)
MaxFrom(t, i, m) ==
    IF i \notin DOMAIN t THEN m
    ELSE MaxFrom(t, i + 1, IF t[i] > m THEN t[i] ELSE m)

TempReadFromSystem(w, t) ==
    [w EXCEPT !.values = [makeVector(1) EXCEPT ![0] = DDiv(D(MaxFrom(t, 0, 0)), D(1000))]]

(* ------------------------------ SystemStatus --------------------------- *)
ActiveCountOfUnits(status) == Cardinality(DOMAIN status)
ActiveCount(status) == Cardinality({u \in DOMAIN status : status[u]})

\* SystemStatus::setUnitStatus(componentId, newStatus)
SetOne(status, componentId, newStatus) == [status EXCEPT ![componentId] = newStatus]

\* SystemStatus::setUnitStatus(std::vector<bool> newStatus)
SetAll(status, newStatus) == newStatus

(* ------------------------------ Controller ----------------------------- *)
\* Vector and Matrix of MathSupport.h, of dimension CtlDim
CtlIdx == 0..(CtlDim - 1)
ZeroVector == makeVector(CtlDim)
ZeroMatrix == Table([i \in CtlIdx |-> ZeroVector])
IdentityMatrix == Table([i \in CtlIdx |->
                            Table([j \in CtlIdx |-> IF i = j THEN D(1) ELSE D(0)])])

RECURSIVE Dot(_, _, _)
Dot(r, v, j) == IF j \notin DOMAIN v THEN D(0)
                ELSE DAdd(DMul(r[j], v[j]), Dot(r, v, j + 1))

MatVec(M, v) == Table([i \in CtlIdx |-> Dot(M[i], v, 0)])
VecScale(a, s) == Table([i \in DOMAIN a |-> DMul(a[i], s[i])])

\* the controller before RobustController::RobustController has run
NoController == [A |-> <<>>, B |-> <<>>, C |-> <<>>, D |-> <<>>,
                 inputDenormalizeScales |-> <<>>, outputNormalizeScales |-> <<>>,
                 state |-> <<>>, samplingInterval |-> 0, cycles |-> 0,
                 currInputVals |-> <<>>, outputVals |-> <<>>, outputTargetVals |-> <<>>,
                 newInputVals |-> <<>>, ran |-> FALSE, published |-> 0]

\* RobustController::computeNewInputs(run): a skipped cycle passes the current
\* inputs through; an active one takes the error of the normalized outputs
\* through the state equations and adds the denormalized result
computeNewInputsRawOutput(c, run, currInputs, outputs, targets) ==
    IF ~run THEN [state |-> c.state, newInputs |-> currInputs]
    ELSE LET error == VecSub(VecScale(targets, c.outputNormalizeScales), outputs)
             state == VecAdd(MatVec(c.A, c.state), MatVec(c.B, error))
             deltaOutputs == VecAdd(MatVec(c.C, state), MatVec(c.D, error))
         IN [state |-> state,
             newInputs |-> VecAdd(currInputs, VecScale(deltaOutputs, c.inputDenormalizeScales))]

computeNewInputs(c, run, currInputs, outputs, targets) ==
    IF ~run THEN [state |-> c.state, newInputs |-> currInputs]
    ELSE LET error == VecSub(VecScale(targets, c.outputNormalizeScales),
                             VecScale(outputs, c.outputNormalizeScales))
             state == VecAdd(MatVec(c.A, c.state), MatVec(c.B, error))
             deltaOutputs == VecAdd(MatVec(c.C, state), MatVec(c.D, error))
         IN [state |-> state,
             newInputs |-> VecAdd(currInputs, VecScale(deltaOutputs, c.inputDenormalizeScales))]

\* a faulty Controller::run: the sampling interval gates nothing
ControllerRunUngated(c, currInputs, outputs, targets) ==
    LET r == computeNewInputs(c, TRUE, currInputs, outputs, targets)
    IN [c EXCEPT !.state = r.state, !.newInputVals = r.newInputs,
                 !.currInputVals = currInputs, !.outputVals = outputs,
                 !.outputTargetVals = targets,
                 !.ran = c.cycles % c.samplingInterval = 0,
                 !.published = c.published + 1,
                 !.cycles = c.cycles + 1]

\* Controller::run: every samplingInterval-th cycle is an active one; the
\* result is written to the newInputVals port and the cycle is counted
ControllerRun(c, currInputs, outputs, targets) ==
    LET run == c.cycles % c.samplingInterval = 0
        r == computeNewInputs(c, run, currInputs, outputs, targets)
    IN [c EXCEPT !.state = r.state, !.newInputVals = r.newInputs,
                 !.currInputVals = currInputs, !.outputVals = outputs,
                 !.outputTargetVals = targets, !.ran = run,
                 !.published = c.published + 1,
                 !.cycles = c.cycles + 1]

(* ------------------------------- inputs -------------------------------- *)
AllOk == [e \in AllEvents |-> "ok"]

\* the events the kernel may refuse: to a CPUPerfSensor the leader of its first
\* group, to a CorePerfSensor any of its events, to a free-standing group the
\* leader and the first sibling
FaultEvents == IF kind = "core" THEN Range(InstEvents) \cup Range(CacheEvents)
               ELSE IF kind = "cpu" THEN {Group0Events[0]}
               ELSE {Group0Events[0], Group0Events[1]}

\* what the kernel may answer in one creation pass over the events evs: at most
\* MaxFaults of them are refused, as unsupported (ENOENT) or otherwise (EACCES)
Answers(evs) ==
    {[e \in AllEvents |-> IF e \in DOMAIN f THEN f[e] ELSE "ok"] :
        f \in UNION {[S -> {"ENOENT", "EACCES"}] :
                        S \in {T \in SUBSET (evs \cap FaultEvents) :
                                  Cardinality(T) <= MaxFaults}}}

CoreEventSet == Range(InstEvents) \cup Range(CacheEvents)

UbOutcomes == {"crash", "silent"}

\* the descriptor whose next read comes back short: none, or an open one
BadFds == {FdClosed} \cup (DOMAIN kfd \cap 0..(MaxBadFd - 1))

\* the lists of distinct core ids a CPUPerfSensor may be given
RECURSIVE InjectiveLists(_)
InjectiveLists(n) ==
    IF n = 0 THEN {<<>>}
    ELSE {Append(l, u) : l \in InjectiveLists(n - 1), u \in Units} \cup InjectiveLists(n - 1)

CoreIdLists == {Arr(l) : l \in {m \in InjectiveLists(NumUnits) :
                                   m # <<>> /\ \A a, b \in 1..Len(m) : m[a] = m[b] => a = b}}

Prefix(a, n) == Table([i \in 0..(n - 1) |-> a[i]])

PerfKinds == {"core", "cpu"}
PlainKinds == {"time", "cpupower", "drampower", "cputemp"}
Kinds == {"group"} \cup PerfKinds \cup PlainKinds

\* the port names the variants hand to Sensor::Sensor (without the name prefix)
CorePortNames == Arr(<<"BIPS", "MPKI">>)
CPUPortNames == Arr(<<"CPUCycles", "BIPS", "BranchMisses", "BranchMissPerc", "LlcRefs",
                      "LlcMisses", "LlcMissRate", "BusCycles", "BusCyclesPerc",
                      "SW_CPUClock", "SW_TaskClock", "SW_PageFaults", "SW_CPUMigrations",
                      "SW_ContextSwitches", "SW_AlignmentFaults", "SW_EmulationFaults">>)

\* Sensor::Sensor: the declared width is the number of port names, or
\* DefaultWidth for the variants that give none
WidthOf(k) == IF k = "core" THEN Size(CorePortNames)
              ELSE IF k = "cpu" THEN Size(CPUPortNames)
              ELSE DefaultWidth

(* -------------------------------- Init --------------------------------- *)
InitKinds(K) ==
    /\ kind \in K
    /\ life = "none"
    /\ proc = "running"
    /\ unitStatus = [u \in Units |-> TRUE]
    /\ totalActiveUnits = NumUnits
    /\ coreIds \in IF kind = "cpu" THEN CoreIdLists
                   ELSE IF kind = "core" THEN {Fill(1, u) : u \in Units}
                   ELSE IF kind = "group" THEN {Fill(1, 0)}
                   ELSE {Fill(0, 0)}
    /\ groupNames \in IF kind = "group" THEN {Prefix(Group0Events, n) : n \in 1..MaxEvents}
                    ELSE {Fill(0, 0)}
    /\ gs = Fill(0, 0)
    /\ sd = Fill(0, FALSE)
    /\ kfd = Fill(0, 0)
    /\ width = 0
    /\ values = Fill(0, 0)
    /\ prevValues = Fill(0, 0)
    /\ out = Fill(0, 0)
    /\ agg = Fill(0, 0)
    /\ dt = 0
    /\ pc = Idle
    /\ log = <<>>
    /\ did = Fill(0, 0)
    /\ obs = Fill(0, 0)
    /\ flipped = Fill(0, FALSE)
    /\ vers = {}
    /\ lastDelta = Fill(0, 0)
    /\ cycle = 0
    /\ phase = ""
    /\ energyCtr = 0
    /\ files = 0
    /\ ctl = NoController
    /\ latencyResults = Fill(0, 0)
    /\ predictions = Fill(DIM_WINDOW_POST, 0)
    /\ printed = ""
    /\ history = <<>>

Init == InitKinds(Kinds)

cfgVars == <<kind, coreIds, groupNames>>
eegVars == <<predictions, printed, history>>
statusVars == <<unitStatus, totalActiveUnits>>
portVars == <<width, prevValues, out>>
plainVars == <<energyCtr, files>>
ghostVars == <<flipped, vers, lastDelta>>

sensorVars == <<gs, sd, kfd, log, proc, values, agg, did, obs>>

Live == life = "live" /\ proc = "running"

\* a cycle that ran updateCounters for the unit computed a delta for it
Computed(d) == d \in {"update", "reactivate+update"}

NoFlips == Fill(Size(coreIds), FALSE)

\* Sensor::Sensor, then the variant's constructor body w
Constructed(w) ==
    /\ Commit(w)
    /\ life' = IF w.proc = "running" THEN "live" ELSE "none"
    /\ width' = WidthOf(kind)
    /\ prevValues' = makeVector(WidthOf(kind))
    /\ out' = Fill(0, 0)
    /\ flipped' = NoFlips

\* a faulty updateValuesFromSystem: the previous values are not rotated
SampledUnrotated(w) ==
    /\ Commit(w)
    /\ prevValues' = prevValues
    /\ out' = IF w.proc = "running" THEN w.values ELSE out

\* Sensor::updateValuesFromSystem around the variant's readFromSystem result w
Sampled(w) ==
    /\ Commit(w)
    /\ prevValues' = values
    /\ out' = IF w.proc = "running" THEN w.values ELSE out

Fresh(n) == [World EXCEPT !.did = Fill(n, "none"), !.obs = Fill(n, "none"),
                          !.values = makeVector(WidthOf(kind))]

(* ------------------------------- actions ------------------------------- *)
\* whether a cycle that starts now creates counters (the kernel's answers
\* matter only then)
WillReactivate == \E p \in DOMAIN sd : sd[p] /\ unitStatus[coreIds[p]]

ConstructCore ==
    /\ kind = "core" /\ life = "none" /\ proc = "running"
    /\ \E delta \in 0..MaxDt, badFd \in {FdClosed} \cup 0..(MaxBadFd - 1),
          ans \in Answers(CoreEventSet), ub \in UbOutcomes :
          /\ Constructed(CoreConstruct(Fresh(1), unitStatus, coreIds[0], delta, badFd, ans, ub))
          /\ dt' = delta
    /\ UNCHANGED <<cfgVars, eegVars, ctl, latencyResults, cycle, phase, statusVars, plainVars, pc, vers, lastDelta>>

UpdateCore ==
    /\ kind = "core" /\ Live /\ pc = Idle
    /\ \E delta \in 0..MaxDt, badFd \in BadFds,
          ans \in (IF WillReactivate THEN Answers(CoreEventSet) ELSE {AllOk}) :
          LET w == CoreReadFromSystem(World, unitStatus, coreIds[0], delta, badFd, ans,
                                      "silent")
          IN /\ Sampled(w)
             /\ dt' = delta
             /\ flipped' = NoFlips
    /\ cycle' = 1 - cycle
    /\ UNCHANGED <<cfgVars, eegVars, ctl, latencyResults, phase, statusVars, plainVars, life, width, pc, vers, lastDelta>>

DestroyCoreRetiringUnit ==
    /\ kind = "core" /\ Live /\ pc = Idle
    /\ Commit(CoreDestroy(World))
    /\ life' = "dead"
    /\ unitStatus' = SetOne(unitStatus, coreIds[0], FALSE)
    /\ totalActiveUnits' = ActiveCount(SetOne(unitStatus, coreIds[0], FALSE))
    /\ UNCHANGED <<cfgVars, eegVars, ctl, latencyResults, cycle, phase, plainVars, portVars, ghostVars, dt, pc>>

DestroyCore ==
    /\ kind = "core" /\ Live /\ pc = Idle
    /\ Commit(CoreDestroy(World))
    /\ life' = "dead"
    /\ UNCHANGED <<cfgVars, eegVars, ctl, latencyResults, cycle, phase, statusVars, plainVars, portVars, ghostVars, dt, pc>>

ConstructCPU ==
    /\ kind = "cpu" /\ life = "none" /\ proc = "running"
    /\ \E ans \in Answers(AllEvents), ub \in UbOutcomes :
          Constructed(CPUConstruct(Fresh(Size(coreIds)), coreIds, ans, ub))
    /\ UNCHANGED <<cfgVars, eegVars, ctl, latencyResults, cycle, phase, statusVars, plainVars, dt, pc, vers, lastDelta>>

\* whether this cycle can index outside the per-unit arrays
CanStray == \E i \in DOMAIN coreIds : coreIds[i] \notin DOMAIN gs

UpdateCPU ==
    /\ kind = "cpu" /\ Live /\ pc = Idle
    /\ \E delta \in 0..MaxDt, badFd \in BadFds,
          ans \in (IF WillReactivate THEN Answers(AllEvents) ELSE {AllOk}),
          ub \in (IF CanStray THEN UbOutcomes ELSE {"silent"}) :
          LET w == CPUReadFromSystem(World, coreIds, unitStatus, delta, badFd, ans, ub)
          IN /\ Sampled(w)
             /\ dt' = delta
             /\ flipped' = NoFlips
    /\ UNCHANGED <<cfgVars, eegVars, ctl, latencyResults, cycle, phase, statusVars, plainVars, life, width, pc, vers, lastDelta>>

DestroyCPU ==
    /\ kind = "cpu" /\ Live /\ pc = Idle
    /\ Commit(CPUDestroy(World, 0))
    /\ life' = "dead"
    /\ UNCHANGED <<cfgVars, eegVars, ctl, latencyResults, cycle, phase, statusVars, plainVars, portVars, ghostVars, dt, pc>>

\* the external policy: SystemStatus::setUnitStatus(componentId, newStatus)
SetUnitStatus ==
    /\ proc = "running" /\ life # "dead" /\ pc = Idle
    /\ \E u \in Units, b \in BOOLEAN :
          /\ unitStatus' = SetOne(unitStatus, u, b)
          /\ totalActiveUnits' = ActiveCount(SetOne(unitStatus, u, b))
          /\ flipped' = Table([p \in DOMAIN flipped |->
                                   flipped[p] \/ (coreIds[p] = u /\ ~b)])
    /\ UNCHANGED <<cfgVars, eegVars, ctl, latencyResults, cycle, phase, plainVars, portVars, life, proc, gs, sd, kfd, values, agg,
                   did, obs, dt, pc, log, vers, lastDelta>>

\* the external policy: SystemStatus::setUnitStatus(newStatus), at most once
\* while a cycle is in progress
SetUnitStatusBulk ==
    /\ proc = "running" /\ life # "dead"
    /\ pc = Idle \/ Cardinality(vers) < 2
    /\ \E v \in [Units -> BOOLEAN] :
          /\ unitStatus' = SetAll(unitStatus, v)
          /\ totalActiveUnits' = ActiveCount(SetAll(unitStatus, v))
          /\ flipped' = Table([p \in DOMAIN flipped |-> flipped[p] \/ ~v[coreIds[p]]])
          /\ vers' = IF pc = Idle THEN vers ELSE vers \cup {SetAll(unitStatus, v)}
    /\ UNCHANGED <<cfgVars, eegVars, ctl, latencyResults, cycle, phase, plainVars, portVars, life, proc, gs, sd, kfd, values, agg,
                   did, obs, dt, pc, log, lastDelta>>

\* an active core retires work; its counting events advance
Work ==
    /\ Live
    /\ \E c \in Units :
          /\ unitStatus[c]
          /\ \E f \in DOMAIN kfd : kfd[f].core = c /\ Counting(kfd, f)
          /\ \A f \in DOMAIN kfd : kfd[f].core = c => kfd[f].count < MaxWork
          /\ kfd' = Tick(kfd, c)
    /\ UNCHANGED <<cfgVars, eegVars, ctl, latencyResults, cycle, phase, statusVars, plainVars, portVars, ghostVars, life, proc, gs,
                   sd, values, agg, did, obs, dt, pc, log>>

(* a CPUPerfSensor cycle taken one loop iteration at a time, so that the   *)
(* external policy can write the status between two reads of it           *)
CycleBegin ==
    /\ kind = "cpu" /\ Live /\ pc = Idle
    /\ \E delta \in 0..MaxDt : dt' = delta
    /\ Commit(CPUBegin(World, Size(coreIds)))
    /\ prevValues' = values
    /\ pc' = At(0)
    /\ vers' = {unitStatus}
    /\ UNCHANGED <<cfgVars, eegVars, ctl, latencyResults, cycle, phase, statusVars, plainVars, life, width, out, flipped, lastDelta>>

CycleUnit ==
    /\ kind = "cpu" /\ Live /\ pc # Idle /\ pc[1] \in DOMAIN coreIds
    /\ \E badFd \in BadFds,
          ans \in (IF sd[pc[1]] /\ unitStatus[coreIds[pc[1]]] THEN Answers(AllEvents)
                   ELSE {AllOk}),
          ub \in (IF CanStray THEN UbOutcomes ELSE {"silent"}) :
          Commit(CPUUnit([World EXCEPT !.log = log], coreIds, unitStatus, pc[1], badFd,
                         ans, ub))
    /\ pc' = At(pc[1] + 1)
    /\ UNCHANGED <<cfgVars, eegVars, ctl, latencyResults, cycle, phase, statusVars, plainVars, portVars, ghostVars, life, dt>>

CycleEnd ==
    /\ kind = "cpu" /\ Live /\ pc = At(Size(coreIds))
    /\ LET w == CPUFinish([World EXCEPT !.log = log], dt)
       IN /\ Commit(w)
          /\ out' = w.values
          /\ flipped' = NoFlips
    /\ pc' = Idle
    /\ UNCHANGED <<cfgVars, eegVars, ctl, latencyResults, cycle, phase, statusVars, plainVars, life, width, prevValues, dt,
                   vers, lastDelta>>

(* ------------------- a free-standing PerfStatCounters ------------------ *)
GroupEvents == Range(groupNames)

GroupBuilt(w) ==
    /\ Commit(w)
    /\ life' = IF w.proc = "running" THEN "live" ELSE "none"

GroupConstruct ==
    /\ kind = "group" /\ life = "none" /\ proc = "running"
    /\ \E nt \in 1..MaxEvents, ans \in Answers(GroupEvents), ub \in UbOutcomes :
          GroupBuilt(NewPerfStatCounters([World EXCEPT !.gs = Fill(1, Fill(1, NoGroup))],
                                         0, 0, coreIds[0], HwTypes(nt), groupNames, ans, ub))
    /\ UNCHANGED <<cfgVars, eegVars, ctl, latencyResults, cycle, phase, statusVars, plainVars, portVars, ghostVars, dt, pc>>

\* a call on the group with result w; ph tells how far the calls since then
\* have followed disable(), createCounterFds(), reenable(), updateCounters()
GroupCall(w, ph) ==
    /\ Commit(w)
    /\ phase' = ph
    /\ UNCHANGED <<cfgVars, eegVars, ctl, latencyResults, cycle, statusVars, plainVars, portVars, ghostVars, life, dt, pc>>

\* the phase after a call that continues the sequence from phase from
After(from, to) == IF phase = from THEN to ELSE ""

GroupEnable == kind = "group" /\ Live /\ GroupCall(enable(World, 0, 0), "")

GroupReenable ==
    kind = "group" /\ Live /\ GroupCall(reenable(World, 0, 0), After("created", "reenabled"))

GroupDisable == kind = "group" /\ Live /\ GroupCall(disable(World, 0, 0), "disabled")

GroupUpdate ==
    /\ kind = "group" /\ Live
    /\ \E badFd \in BadFds :
          GroupCall(updateCounters(World, 0, 0, badFd), After("reenabled", "updated"))

GroupCreate ==
    /\ kind = "group" /\ Live
    /\ \E nt \in 1..MaxEvents, ans \in Answers(GroupEvents) :
          GroupCall(createCounterFds(World, 0, 0, coreIds[0], HwTypes(nt), groupNames, ans,
                                     "silent"),
                    After("disabled", "created"))

GroupGetDelta ==
    /\ kind = "group" /\ Live
    /\ lastDelta' = getDeltaValues(gs[0][0])
    /\ UNCHANGED <<cfgVars, eegVars, ctl, latencyResults, cycle, phase, statusVars, plainVars, portVars, flipped, vers, life,
                   proc, gs, sd, kfd, values, agg, did, obs, dt, pc, log>>

(* ------------------ Time, power and temperature sensors ---------------- *)
TempReadings == {-1000} \cup {1000 * k : k \in 0..MaxTemp}

ConstructTime ==
    /\ kind = "time" /\ life = "none" /\ proc = "running"
    /\ \E t \in 0..MaxDt : Constructed(TimeReadFromSystem(Fresh(0), t))
    /\ UNCHANGED <<cfgVars, eegVars, ctl, latencyResults, cycle, phase, statusVars, plainVars, dt, pc, vers, lastDelta>>

\* a faulty power-sensor constructor: the energy counter is read once at
\* construction and stored as the baseline
ConstructPowerPrimed ==
    /\ kind \in {"cpupower", "drampower"} /\ life = "none" /\ proc = "running"
    /\ Constructed(Fresh(0))
    /\ energyCtr' \in 1..MaxEnergy
    /\ files' \in IF kind = "cpupower" THEN {1, 2} ELSE {1}
    /\ UNCHANGED <<cfgVars, eegVars, ctl, latencyResults, cycle, phase, statusVars, dt, pc, vers, lastDelta>>

\* CPUPowerSensor::CPUPowerSensor (one core-domain file or two package files)
\* and DRAMPowerSensor::DRAMPowerSensor (one file)
ConstructPower ==
    /\ kind \in {"cpupower", "drampower"} /\ life = "none" /\ proc = "running"
    /\ Constructed(Fresh(0))
    /\ energyCtr' = 0
    /\ files' \in IF kind = "cpupower" THEN {1, 2} ELSE {1}
    /\ UNCHANGED <<cfgVars, eegVars, ctl, latencyResults, cycle, phase, statusVars, dt, pc, vers, lastDelta>>

\* CPUTempSensor::CPUTempSensor: opened tells whether any candidate directory
\* could be opened, found how many temperature files the scan collected
ConstructTemp ==
    /\ kind = "cputemp" /\ life = "none" /\ proc = "running"
    /\ \E opened \in BOOLEAN, found \in 0..MaxFiles :
          /\ ~opened => found = 0
          /\ Constructed(IF opened THEN Fresh(0) ELSE Exited(Fresh(0)))
          /\ files' = found
    /\ UNCHANGED <<cfgVars, eegVars, ctl, latencyResults, cycle, phase, statusVars, energyCtr, dt, pc, vers, lastDelta>>

UpdateTime ==
    /\ kind = "time" /\ Live
    /\ \E t \in 0..MaxDt : Sampled(TimeReadFromSystem(World, t))
    /\ UNCHANGED <<cfgVars, eegVars, ctl, latencyResults, cycle, phase, statusVars, plainVars, ghostVars, life, width, dt, pc>>

UpdatePower ==
    /\ kind \in {"cpupower", "drampower"} /\ Live
    /\ \E e \in [0..(files - 1) -> 0..MaxEnergy], delta \in 0..MaxDt :
          LET r == PowerReadFromSystem(World, energyCtr, e, delta)
          IN /\ Sampled(r.w)
             /\ energyCtr' = r.energyCtr
             /\ dt' = delta
    /\ UNCHANGED <<cfgVars, eegVars, ctl, latencyResults, cycle, phase, statusVars, ghostVars, life, width, files, pc>>

UpdateTemp ==
    /\ kind = "cputemp" /\ Live
    /\ \E t \in [0..(files - 1) -> TempReadings] : Sampled(TempReadFromSystem(World, t))
    /\ UNCHANGED <<cfgVars, eegVars, ctl, latencyResults, cycle, phase, statusVars, plainVars, ghostVars, life, width, dt, pc>>

(* ------------------------------ the controller ------------------------- *)
\* the coefficient sets the external source can supply
Coefficients == {[A |-> ZeroMatrix, B |-> IdentityMatrix, C |-> IdentityMatrix,
                  D |-> ZeroMatrix],
                 [A |-> IdentityMatrix, B |-> IdentityMatrix, C |-> IdentityMatrix,
                  D |-> ZeroMatrix],
                 [A |-> ZeroMatrix, B |-> IdentityMatrix, C |-> IdentityMatrix,
                  D |-> IdentityMatrix]}
\* the two normalization scale vectors, input and output
Scales == {[in |-> Fill(CtlDim, D(1)), out |-> Fill(CtlDim, D(1))],
           [in |-> Table([i \in CtlIdx |-> D(1 + i)]),
            out |-> Table([i \in CtlIdx |-> D(CtlDim - i)])]}
\* what the ports can hold: the inputs move together, the outputs apart
InputValues == {Fill(CtlDim, D(k)) : k \in 0..MaxSignal}
PortValues == {Vector(v) : v \in [CtlIdx -> 0..MaxSignal]}

\* RobustController::RobustController
ConstructController ==
    /\ kind = "controller" /\ life = "none" /\ proc = "running"
    /\ \E m \in Coefficients, sc \in Scales, n \in 1..MaxInterval :
          ctl' = [NoController EXCEPT !.A = m.A, !.B = m.B, !.C = m.C, !.D = m.D,
                                      !.inputDenormalizeScales = sc.in,
                                      !.outputNormalizeScales = sc.out,
                                      !.state = ZeroVector, !.samplingInterval = n,
                                      !.newInputVals = ZeroVector]
    /\ life' = "live"
    /\ UNCHANGED <<cfgVars, eegVars, latencyResults, cycle, phase, statusVars, plainVars, portVars, ghostVars,
                   sensorVars, dt, pc>>

\* Controller::run, for the values found on the three input ports
RunController ==
    /\ kind = "controller" /\ Live /\ ctl.cycles < MaxCycles
    /\ \E u \in InputValues, y \in PortValues, t \in PortValues :
          /\ \A i \in CtlIdx : Abs(ControllerRun(ctl, u, y, t).state[i][1]) <= MaxState
          /\ ctl' = ControllerRun(ctl, u, y, t)
    /\ UNCHANGED <<cfgVars, eegVars, latencyResults, cycle, phase, statusVars, plainVars, portVars, ghostVars,
                   sensorVars, life, dt, pc>>

(* --------------------------- measureReadLatency ------------------------ *)
\* Sensor::updateValuesFromSystem on the live sensor: readFromSystem is the
\* one of the sensor's class
Acquire ==
    \/ /\ kind = "time"
       /\ \E t \in 0..MaxDt : Sampled(TimeReadFromSystem(World, t))
       /\ UNCHANGED <<plainVars, ghostVars, dt, cycle>>
    \/ /\ kind \in {"cpupower", "drampower"}
       /\ \E e \in [0..(files - 1) -> 0..MaxEnergy], delta \in 0..MaxDt :
             LET r == PowerReadFromSystem(World, energyCtr, e, delta)
             IN Sampled(r.w) /\ energyCtr' = r.energyCtr /\ dt' = delta
       /\ UNCHANGED <<ghostVars, files, cycle>>
    \/ /\ kind = "cputemp"
       /\ \E t \in [0..(files - 1) -> TempReadings] : Sampled(TempReadFromSystem(World, t))
       /\ UNCHANGED <<plainVars, ghostVars, dt, cycle>>
    \/ /\ kind = "core" /\ pc = Idle
       /\ \E delta \in 0..MaxDt, badFd \in BadFds,
             ans \in (IF WillReactivate THEN Answers(CoreEventSet) ELSE {AllOk}) :
             /\ Sampled(CoreReadFromSystem(World, unitStatus, coreIds[0], delta, badFd,
                                           ans, "silent"))
             /\ dt' = delta
             /\ flipped' = NoFlips
       /\ cycle' = 1 - cycle
       /\ UNCHANGED <<plainVars, vers, lastDelta>>

\* a faulty measureReadLatency: the values are rotated a second time after
\* the acquisition
MeasureReadLatencyTwice ==
    /\ Live
    /\ \E us \in 0..MaxDt : latencyResults' = [makeVector(1) EXCEPT ![0] = D(us)]
    /\ \E t \in 0..MaxDt :
          /\ kind = "time"
          /\ Commit(TimeReadFromSystem(World, t))
          /\ prevValues' = TimeReadFromSystem(World, t).values
          /\ out' = TimeReadFromSystem(World, t).values
    /\ UNCHANGED <<cfgVars, eegVars, ctl, phase, statusVars, plainVars, ghostVars, life, width, dt, pc,
                   cycle>>

\* Sensor::measureReadLatency: one updateValuesFromSystem() between two clock
\* readings that are us microseconds apart
MeasureReadLatency ==
    /\ Live
    /\ \E us \in 0..MaxDt : latencyResults' = [makeVector(1) EXCEPT ![0] = D(us)]
    /\ Acquire
    /\ UNCHANGED <<cfgVars, eegVars, ctl, phase, statusVars, life, width, pc>>

(* ------------------ the EEG classifier's postprocess() ----------------- *)
\* a faulty postprocess(): a window sum that reaches the threshold is
\* reported
postprocessAtThreshold(prediction, window) ==
    LET classpredicted == Abs(prediction - 1)
        shifted == Table([i \in DOMAIN window |->
                             IF i < 9 THEN window[i + 1] ELSE classpredicted])
        majority == SumTo(shifted, 9) + shifted[9]
    IN [predictions |-> shifted, ictal |-> majority >= threshold]

\* postprocess(prediction, predictions, ix): the window after the call and
\* whether the call printed "Ictal"
postprocess(prediction, window) ==
    LET classpredicted == Abs(prediction - 1)
        shifted == Table([i \in DOMAIN window |->
                             IF i < 9 THEN window[i + 1] ELSE classpredicted])
        majority == SumTo(shifted, 9) + shifted[9]
    IN [predictions |-> shifted, ictal |-> majority > threshold]

\* one pass of the loop of main(): the class min_dist_hamm() returned goes
\* to postprocess()
MainPostprocess ==
    /\ kind = "eeg" /\ Len(history) < MaxCalls
    /\ \E classpredicted \in 0..(classes - 1) :
          LET r == postprocess(classpredicted, predictions)
          IN /\ predictions' = r.predictions
             /\ printed' = IF r.ictal THEN "Ictal" ELSE "prevision"
             /\ history' = Append(history, classpredicted)
    /\ UNCHANGED <<cfgVars, statusVars, plainVars, portVars, ghostVars, life, proc, gs, sd,
                   kfd, values, agg, dt, pc, log, did, obs, cycle, phase, ctl,
                   latencyResults>>

(* ---------------------------- specifications --------------------------- *)
GroupNext == \/ GroupConstruct \/ GroupEnable \/ GroupReenable \/ GroupDisable
             \/ GroupUpdate \/ GroupCreate \/ GroupGetDelta

PerfNext == \/ ConstructCore \/ UpdateCore \/ DestroyCore
            \/ ConstructCPU \/ UpdateCPU \/ DestroyCPU

PlainNext == \/ ConstructTime \/ ConstructPower \/ ConstructTemp
             \/ UpdateTime \/ UpdatePower \/ UpdateTemp

EnvNext == SetUnitStatus \/ Work

Next == GroupNext \/ PerfNext \/ PlainNext \/ EnvNext \/ SetUnitStatusBulk

\* every object, driven by a single sampling loop
Spec == Init /\ [][Next]_vars

\* a free-standing counter group under arbitrary calls
SpecGroup == InitKinds({"group"}) /\ [][GroupNext \/ Work]_vars

\* the two performance sensors under the sampling loop and the external policy
SpecPerf == InitKinds(PerfKinds) /\ [][PerfNext \/ EnvNext]_vars

\* a CorePerfSensor under a sampling loop that keeps running: the caller's
\* loop calls updateValuesFromSystem again and again
LoopNext == ConstructCore \/ UpdateCore \/ DestroyCore \/ SetUnitStatus \/ Work
\* the step of the loop: a sampling cycle of the live sensor has run
Cycled == kind = "core" /\ Live /\ pc = Idle /\ cycle' = 1 - cycle
SpecLoop == InitKinds({"core"}) /\ [][LoopNext]_vars /\ WF_cycle(Cycled)

\* the sensors that read files and the clock
SpecPlain == InitKinds(PlainKinds) /\ [][PlainNext]_vars

\* the sensors whose read latency the caller measures
SpecLatency ==
    /\ InitKinds(PlainKinds \cup {"core"})
    /\ [][\/ PlainNext \/ ConstructCore \/ UpdateCore \/ SetUnitStatus \/ Work
          \/ MeasureReadLatency]_vars

\* the EEG classifier's main loop, as far as postprocess() is concerned
SpecPost == InitKinds({"eeg"}) /\ [][MainPostprocess]_vars

\* the controller under its own cycle
ControllerNext == ConstructController \/ RunController
SpecController == InitKinds({"controller"}) /\ [][ControllerNext]_vars

\* CPUPerfSensor with the external policy writing while a cycle is in progress
RaceNext == \/ ConstructCPU \/ CycleBegin \/ CycleUnit \/ CycleEnd
            \/ SetUnitStatusBulk \/ Work

SpecRace == InitKinds({"cpu"}) /\ [][RaceNext]_vars


(* ------------------------------- claims -------------------------------- *)
\* the previous values of every counter of the unit at position p, after a step
BaselineZero(p) ==
    \A j \in DOMAIN gs'[p] : \A i \in DOMAIN gs'[p][j].prevValues :
        gs'[p][j].prevValues[i] = 0

\* C1: if a unit was set inactive and is active again when the next sampling
\* cycle of a CorePerfSensor or CPUPerfSensor runs, the delta that cycle
\* computes for the unit is taken from a zero previous value.
\* (The code violates this: a flip the sensor never observed leaves the
\* cumulative values in place.)
C1_BaselineAfterFlip ==
    [][\A p \in DOMAIN flipped :
          (/\ flipped[p] /\ ~flipped'[p]
           /\ unitStatus[coreIds[p]]
           /\ proc' = "running"
           /\ Computed(did'[p]))
          => BaselineZero(p)]_vars

\* C2: the statuses one CPUPerfSensor cycle has read so far all come from one
\* of the status vectors coreStatus held during that cycle, although a bulk
\* setUnitStatus(vector) was written while the cycle ran.
\* (The code violates this: getUnitStatus is called once per unit, with no lock
\* and no snapshot, so the loop can read one unit before the write and the
\* next one after it.)
C2_OneVersionPerCycle ==
    \E v \in vers \cup {unitStatus} :
        \A p \in DOMAIN obs : obs[p] # "none" => obs[p] = Obs(v[coreIds[p]])

C4_DeltaIsDifference ==
    (kind = "group" /\ Live)
    => LET g == gs[0][0]
       IN /\ DOMAIN getDeltaValues(g) = DOMAIN g.fds
          /\ \A i \in DOMAIN g.fds :
                /\ getDeltaValues(g)[i] = <<g.values[i] - g.prevValues[i], 1>>
                /\ g.fds[i] = FdUnsupported
                   => g.values[i] = 0 /\ getDeltaValues(g)[i] = <<0, 1>>

\* a group with an unsupported slot has counted on another slot, and the last
\* getDeltaValues() call returned that non-zero delta
C4_Witness ==
    /\ kind = "group" /\ Live
    /\ \E i \in DOMAIN gs[0][0].fds : gs[0][0].fds[i] = FdUnsupported
    /\ lastDelta = getDeltaValues(gs[0][0])
    /\ \E k \in DOMAIN lastDelta : lastDelta[k] = <<1, 1>>

\* what the kernel counted for slot i of group j of position p since the
\* previous cycle read it: nothing for an unsupported slot, and nothing for a
\* unit that comes back from inactive, whose counters start afresh
Counted(p, j, i) ==
    LET g == gs[p][j]
    IN IF obs[p] = "off" \/ g.fds[i] < 0 THEN 0
       ELSE kfd[g.fds[i]].count - g.values[i]

\* the sum of Counted over the positions below n that the cycle sees active
RECURSIVE ActiveCounted(_, _, _, _)
ActiveCounted(seen, j, i, n) ==
    IF n = 0 THEN 0
    ELSE ActiveCounted(seen, j, i, n - 1)
         + (IF seen[n - 1] = "on" THEN Counted(n - 1, j, i) ELSE 0)

\* C5: in every CPUPerfSensor cycle each of the four aggregates is the sum of
\* the counter deltas of exactly the units the cycle observes active: a unit
\* observed inactive adds nothing, and a unit that stays active is counted
\* from counters it still holds.
C5_AggregateOfActive ==
    [][(UpdateCPU /\ proc' = "running")
       => /\ \A p \in DOMAIN obs' :
                (obs[p] # "off" /\ obs'[p] = "on")
                => \A j \in DOMAIN gs[p] : \A i \in DOMAIN gs[p][j].fds :
                      gs[p][j].fds[i] # FdClosed
          /\ \A j \in DOMAIN agg' : \A i \in DOMAIN agg'[j] :
                agg'[j][i] = <<ActiveCounted(obs', j, i, Size(coreIds)), 1>>]_vars

\* the process ended while the last cycle was at position p of the core list
EndedAt(p) ==
    /\ proc # "running"
    /\ obs[p] # "none"
    /\ (p + 1) \in DOMAIN obs => obs[p + 1] = "none"

\* C6: a unit that a CPUPerfSensor cycle observes inactive does not end the
\* process: the cycle issues no read and no perf_event_open for that unit's
\* position, does not end at that position, and when the process is still
\* running the cycle has visited every unit and published its outputs.
\* (The code violates this when the core ids are not 0..n-1 in order: the
\* shutdown handler indexes the per-unit arrays by core id, see C24.)
C6_InactiveNeverFatal ==
    (kind = "cpu" /\ life = "live" /\ pc = Idle /\ did # <<>> /\ did[0] # "none")
    => \A p \in DOMAIN obs :
          obs[p] = "off"
          => /\ ~EndedAt(p)
             /\ \A k \in DOMAIN log :
                   log[k].op \in {"read", "open"} => log[k].pos # p
             /\ proc = "running"
                => /\ \A q \in DOMAIN did : did[q] # "none"
                   /\ out = values

\* C7: a slot of a PerfStatCounters object that is marked unsupported stays
\* unsupported through every later enable(), reenable(), disable(),
\* updateCounters() and createCounterFds() on the object, whatever the kernel
\* answers.
C7_UnsupportedStays ==
    [][(kind = "group" /\ Live /\ proc' = "running")
       => \A i \in DOMAIN gs[0][0].fds :
             gs[0][0].fds[i] = FdUnsupported => gs'[0][0].fds[i] = FdUnsupported]_vars

\* the perf_event_open calls of the last operation
Opens == {k \in DOMAIN log : log[k].op = "open"}

\* C8: when the kernel reports an event of a group as unsupported (ENOENT) and
\* refuses nothing for another reason, the process keeps running, every event
\* of the group has been tried, the unsupported slots are marked and hold zero,
\* and every other slot holds an open descriptor.  (Stated for the builds in
\* which the constructor's write past the end of prevValues goes unnoticed.)
C8_UnsupportedIsLocal ==
    (/\ kind = "group" /\ proc # "crashed"
     /\ \E k \in Opens : log[k].err = "ENOENT"
     /\ \A k \in Opens : log[k].err \notin {"EACCES", "EMFILE"})
    => /\ proc = "running"
       /\ {log[k].slot : k \in Opens} = DOMAIN groupNames
       /\ \A k \in Opens :
             LET i == log[k].slot
                 g == gs[0][0]
             IN IF log[k].err = "ENOENT"
                THEN g.fds[i] = FdUnsupported /\ g.values[i] = 0
                ELSE g.fds[i] \in DOMAIN kfd

\* the slots of all PerfStatCounters objects
Slots == {<<p, j, i>> \in (DOMAIN gs) \X (0..(CPUGroups - 1)) \X (0..3) :
             j \in DOMAIN gs[p] /\ i \in DOMAIN gs[p][j].fds}

\* C9: no close, ioctl or read is issued on a descriptor that is not open (so
\* no descriptor is closed twice or used after its close), every descriptor a
\* slot holds is open, and no two slots hold the same descriptor.
C9_DescriptorsOwnedOnce ==
    /\ \A k \in DOMAIN log :
          log[k].op \in {"close", "disable", "enable", "reset", "read"} => log[k].live
    /\ \A s \in Slots :
          LET fd == gs[s[1]][s[2]].fds[s[3]]
          IN fd >= 0
             => /\ fd \in DOMAIN kfd
                /\ \A t \in Slots : t # s => gs[t[1]][t[2]].fds[t[3]] # fd

C9_Witness ==
    /\ kind = "core" /\ life = "dead"
    /\ \E k \in DOMAIN log : log[k].op = "close" /\ log[k].live
    /\ \A s \in Slots : gs[s[1]][s[2]].fds[s[3]] = FdClosed
    /\ DOMAIN kfd = {}

\* C10: a CorePerfSensor cycle that observes its unit inactive issues no read;
\* the cycle that performs the shutdown leaves no descriptor open in either
\* group and sets the shut-down flag.
C10_NoReadWhileInactive ==
    (kind = "core" /\ life = "live" /\ obs[0] = "off")
    => /\ \A k \in DOMAIN log : log[k].op # "read"
       /\ sd[0]
       /\ \A j \in DOMAIN gs[0] : \A i \in DOMAIN gs[0][j].fds : gs[0][j].fds[i] < 0
       /\ DOMAIN kfd = {}

C10_Witness ==
    /\ kind = "core" /\ Live
    /\ obs[0] = "off" /\ did[0] = "update" /\ sd[0]

\* the unit of a CorePerfSensor is (is not) active and the sensor exists
CoreUnitIs(b) == kind = "core" /\ life = "live" /\ unitStatus[coreIds[0]] = b

\* C11: under a sampling loop that keeps running, once the unit status stops
\* changing the shut-down flag of a CorePerfSensor comes to agree with it: a
\* unit that stays inactive leaves the sensor shut down, a unit that stays
\* active leaves it not shut down with every cycle updating the counters; and
\* the one cycle that finds the sensor shut down and the unit active recreates
\* both groups with open descriptors and clears the flag.
C11_FlagFollowsStatus ==
    /\ ([](proc = "running") /\ <>[]CoreUnitIs(FALSE)) => <>[](life = "live" /\ sd[0])
    /\ ([](proc = "running") /\ <>[]CoreUnitIs(TRUE))
       => <>[](life = "live" /\ ~sd[0] /\ did[0] = "update")
    /\ [][(CoreUnitIs(TRUE) /\ sd[0] /\ UpdateCore /\ proc' = "running")
          => /\ ~sd'[0]
             /\ \A j \in DOMAIN gs'[0] : \A i \in DOMAIN gs'[0][j].fds :
                   LET fd == gs'[0][j].fds[i]
                   IN fd = FdUnsupported \/ (fd \in DOMAIN kfd' /\ kfd'[fd].en)]_vars

C11_Witness ==
    /\ CoreUnitIs(TRUE) /\ proc = "running"
    /\ did[0] = "reactivate" /\ ~sd[0]
    /\ \A j \in DOMAIN gs[0] : \A i \in DOMAIN gs[0][j].fds : gs[0][j].fds[i] \in DOMAIN kfd

\* the reading the kernel holds for slot i of group g (nothing for a slot
\* without a descriptor)
Raw(tab, g, i) == IF g.fds[i] \in DOMAIN tab THEN tab[g.fds[i]].count ELSE 0

\* C12: after disable(), createCounterFds() and reenable() on a PerfStatCounters
\* every current and previous value is zero, and the delta of the first
\* updateCounters() after them is the raw reading of the descriptors the group
\* then holds.
C12_FreshBaseline ==
    /\ []((kind = "group" /\ Live /\ phase \in {"disabled", "created", "reenabled"})
          => \A i \in DOMAIN gs[0][0].fds :
                gs[0][0].values[i] = 0 /\ gs[0][0].prevValues[i] = 0)
    /\ [][(kind = "group" /\ phase = "reenabled" /\ phase' = "updated"
           /\ proc' = "running")
          => \A i \in DOMAIN gs'[0][0].fds :
                /\ gs'[0][0].prevValues[i] = 0
                /\ getDeltaValues(gs'[0][0])[i] = D(Raw(kfd', gs'[0][0], i))]_vars

C12_Witness ==
    /\ kind = "group" /\ Live /\ phase = "updated"
    /\ \E i \in DOMAIN gs[0][0].fds : getDeltaValues(gs[0][0])[i] = D(1)

\* the type lists whose length differs from that of the group's event list
Mismatched == {nt \in 1..MaxEvents : nt # Size(groupNames)}

\* a step that is the PerfStatCounters constructor called with mismatched lists
MismatchedConstruct ==
    /\ kind = "group" /\ life = "none" /\ proc = "running"
    /\ \E nt \in Mismatched, ans \in Answers(GroupEvents), ub \in UbOutcomes :
          GroupBuilt(NewPerfStatCounters([World EXCEPT !.gs = Fill(1, Fill(1, NoGroup))],
                                         0, 0, coreIds[0], HwTypes(nt), groupNames, ans, ub))

\* a step that is createCounterFds() called with mismatched lists
MismatchedCreate ==
    /\ kind = "group" /\ Live
    /\ \E nt \in Mismatched, ans \in Answers(GroupEvents) :
          Commit(createCounterFds(World, 0, 0, coreIds[0], HwTypes(nt), groupNames, ans,
                                  "silent"))

\* C13: the PerfStatCounters constructor and createCounterFds(), given a type
\* list and an event list of different lengths, end the process with no system
\* call issued, no descriptor opened or closed, and no slot of the group
\* changed.
C13_MismatchIsFatalAtOnce ==
    [][/\ MismatchedConstruct
          => /\ proc' = "exited" /\ log' = <<>> /\ kfd' = kfd
             /\ \A i \in DOMAIN gs'[0][0].fds : gs'[0][0].fds[i] = FdClosed
       /\ MismatchedCreate
          => proc' = "exited" /\ log' = <<>> /\ kfd' = kfd /\ gs' = gs]_vars

C13_Witness ==
    /\ kind = "group" /\ life = "live" /\ proc = "exited" /\ log = <<>>
    /\ \E i \in DOMAIN gs[0][0].fds : gs[0][0].fds[i] \in DOMAIN kfd

\* the reads of the last operation that came back short
ShortReads(l) == {k \in DOMAIN l : l[k].op = "read" /\ l[k].err = "short"}

\* C14: a read in updateCounters() that comes back short ends the process in
\* that call: it is the last system call issued (no retry, no read of a later
\* slot), and the operation publishes nothing.
C14_ShortReadIsFatal ==
    /\ [](\A k \in ShortReads(log) : k = Len(log) /\ proc = "exited")
    /\ [][(ShortReads(log') # {} /\ proc = "running")
          => out' = out /\ lastDelta' = lastDelta]_vars

C14_Witness ==
    /\ kind = "cpu" /\ life = "live" /\ proc = "exited"
    /\ Len(log) \in ShortReads(log)
    /\ LET e == log[Len(log)]
       IN e.live /\ e.slot + 1 \in DOMAIN gs[e.pos][e.grp].fds

\* C15: an acquisition of CPUPowerSensor or DRAMPowerSensor that reads the
\* cumulative energy e2 after e1 was stored, d > 0 after the previous one,
\* publishes (e2 - e1) / d, negative when e2 < e1, and stores e2.
C15_PowerIsEnergyOverTime ==
    [][UpdatePower
       => LET e1 == energyCtr
              e2 == energyCtr'
              d == dt'
              power == out'[0]
          IN /\ e2 \in 0..(files * MaxEnergy)
             /\ d > 0 => /\ power[2] > 0
                         /\ power[1] * d = (e2 - e1) * power[2]
                         /\ e2 < e1 => power[1] < 0]_vars

C15_Witness ==
    /\ kind \in {"cpupower", "drampower"} /\ Live
    /\ dt > 0 /\ out # <<>> /\ out[0][1] < 0
    /\ energyCtr < MaxEnergy

\* C16: for the controller with A zero, B and C identity, D zero, whose state
\* is zero: a cycle in which the target output equals the current output
\* leaves the state the zero vector and publishes the current input as the
\* new input; the state is zero after construction, so this holds over any
\* number of consecutive such cycles.
FixedPointCoefficients(c) ==
    c.A = ZeroMatrix /\ c.B = IdentityMatrix /\ c.C = IdentityMatrix /\ c.D = ZeroMatrix
C16_FixedPoint ==
    /\ [](kind = "controller" /\ life = "live" /\ ctl.cycles = 0 /\ ctl.currInputVals = <<>>
          => ctl.state = ZeroVector)
    /\ [][(kind = "controller" /\ Live /\ ctl' # ctl
           /\ FixedPointCoefficients(ctl) /\ ctl.state = ZeroVector
           /\ ctl'.outputTargetVals = ctl'.outputVals)
          => ctl'.state = ZeroVector /\ ctl'.newInputVals = ctl'.currInputVals]_vars
C16_Witness ==
    /\ kind = "controller" /\ Live /\ FixedPointCoefficients(ctl) /\ ctl.ran
    /\ ctl.outputNormalizeScales # Fill(CtlDim, D(1))
    /\ ctl.outputTargetVals = ctl.outputVals /\ ctl.outputVals # ZeroVector
    /\ ctl.currInputVals # ZeroVector
    /\ ctl.state = ZeroVector /\ ctl.newInputVals = ctl.currInputVals

\* C17: no sensor operation writes the shared status object: a step that
\* changes anything of a sensor (its construction, a sampling cycle with its
\* shutdown and reactivation handling, its destruction) leaves the status
\* flags, the active count and the number of units as they were.
SensorState == <<life, proc, gs, sd, kfd, width, values, prevValues, out, agg, dt, pc, log,
                 did, obs, lastDelta, energyCtr, files>>
C17_StatusIsReadOnly ==
    [][SensorState' # SensorState
       => /\ unitStatus' = unitStatus
          /\ totalActiveUnits' = totalActiveUnits
          /\ DOMAIN unitStatus' = Units]_vars
C17_Witness ==
    /\ kind = "core" /\ life = "dead" /\ proc = "running"
    /\ sd[0] /\ did[0] = "shutdown"
    /\ ~unitStatus[coreIds[0]] /\ totalActiveUnits = NumUnits - 1

\* C18: a CPUTempSensor acquisition publishes the largest of the readings of
\* its temperature files, divided by 1000, whatever the readings are (all
\* zero and all negative included).
Largest(S) == CHOOSE m \in S : \A x \in S : x <= m
C18_PublishesMaximum ==
    [][\A t \in [0..(files - 1) -> TempReadings] :
          (kind = "cputemp" /\ Live /\ files > 0 /\ Sampled(TempReadFromSystem(World, t)))
          => out'[0] = DDiv(D(Largest(Range(t))), D(1000))]_vars

\* C19: whatever single-unit and bulk setUnitStatus calls have been made,
\* getTotalActive() is the number of units whose status is true, and the
\* number of units is what it was at the start.
getTotalActive == totalActiveUnits
getTotalUnits == Cardinality(DOMAIN unitStatus)
InCycle(p, o) == \E k \in DOMAIN log : log[k].op = o /\ log[k].pos = p
C20_OneActionPerUnit ==
    (kind = "cpu" /\ life = "live" /\ \A p \in DOMAIN coreIds : coreIds[p] = p)
    => \A p \in DOMAIN did :
          did[p] # "none" => ~(InCycle(p, "open") /\ InCycle(p, "read"))

\* C21: each Controller::run() writes one vector to the new-input port and
\* advances the cycle counter by one; on a call that the sampling interval
\* gates off, the vector written is the current input and the state of the
\* linear controller is left as it was.
C21_OnePublicationPerRun ==
    [][(kind = "controller" /\ Live /\ ctl' # ctl)
       => /\ ctl'.cycles = ctl.cycles + 1
          /\ ctl'.published = ctl.published + 1
          /\ ctl.cycles % ctl.samplingInterval # 0
             => ctl'.newInputVals = ctl'.currInputVals /\ ctl'.state = ctl.state]_vars
C21_Witness ==
    /\ kind = "controller" /\ Live /\ ~ctl.ran /\ ctl.cycles = 2 /\ ctl.published = 2
    /\ ctl.state # ZeroVector /\ ctl.outputTargetVals # ctl.outputVals
    /\ ctl.newInputVals = ctl.currInputVals

\* C22: in createCounterFds the first event is opened as a new group leader,
\* and every later event is opened with, as its group, the descriptor that
\* the opening of the first event returned in that same call: never -1 or
\* -2, and never a descriptor of an earlier call.
C22_SiblingsJoinOpenLeader ==
    \A k \in DOMAIN log :
       log[k].op = "open"
       => IF log[k].slot = 0 THEN log[k].arg = NewLeader
          ELSE \E h \in 1..(k - 1) :
                  /\ log[h].op = "open" /\ log[h].live /\ log[h].slot = 0
                  /\ log[h].pos = log[k].pos /\ log[h].grp = log[k].grp
                  /\ log[h].fd = log[k].arg

\* C23: through the shutdowns and reactivations of CorePerfSensor and
\* CPUPerfSensor no open descriptor is overwritten without being closed:
\* every descriptor the kernel holds open is still stored in a slot of a
\* group, and a group has no more descriptors open than it has events.
HeldBy(f) == {t \in {<<p, j, i>> : p \in DOMAIN gs, j \in 0..(CPUGroups - 1),
                                   i \in 0..(CPUGroups - 1)} :
                 /\ t[2] \in DOMAIN gs[t[1]]
                 /\ t[3] \in DOMAIN gs[t[1]][t[2]].fds
                 /\ gs[t[1]][t[2]].fds[t[3]] = f}
C23_NoDescriptorOverwritten ==
    (kind \in PerfKinds /\ life = "live") => \A f \in DOMAIN kfd : HeldBy(f) # {}

\* C24: for any list of core ids, a CPUPerfSensor cycle that shuts down the
\* unit at position p leaves the flag of position p set and the groups of
\* position p without an open descriptor, and one that reactivates the unit
\* at position p leaves the flag of position p cleared.
NoneOpen(p) == \A j \in DOMAIN gs[p] : \A i \in DOMAIN gs[p][j].fds :
                  gs[p][j].fds[i] \notin DOMAIN kfd
C24_HandlersUsePosition ==
    (kind = "cpu" /\ Live)
    => \A p \in DOMAIN did :
          /\ did[p] = "shutdown" => sd[p] /\ NoneOpen(p)
          /\ did[p] = "reactivate+update" => ~sd[p]

\* C25: between two sampling cycles of a CorePerfSensor or a CPUPerfSensor, a
\* unit whose shut-down flag is set has no open descriptor in its groups, and
\* a unit whose flag is clear has no closed slot: each of its slots holds an
\* open descriptor or the unsupported mark.
SlotsOf(p) == {<<j, i>> \in (0..(CPUGroups - 1)) \X (0..(CPUGroups - 1)) :
                  j \in DOMAIN gs[p] /\ i \in DOMAIN gs[p][j].fds}
C25_FlagMatchesDescriptors ==
    (kind \in PerfKinds /\ Live /\ pc = Idle)
    => \A p \in DOMAIN sd : \A t \in SlotsOf(p) :
          LET fd == gs[p][t[1]].fds[t[2]]
          IN IF sd[p] THEN fd \in {FdClosed, FdUnsupported}
             ELSE fd = FdUnsupported \/ fd \in DOMAIN kfd
C25_Witness ==
    /\ kind = "cpu" /\ Live /\ pc = Idle
    /\ \E p, q \in DOMAIN sd :
          /\ sd[p] /\ did[p] = "skip"
          /\ ~sd[q] /\ did[q] = "reactivate+update"
          /\ \A t \in SlotsOf(p) : gs[p][t[1]].fds[t[2]] = FdClosed
          /\ \A t \in SlotsOf(q) : gs[q][t[1]].fds[t[2]] \in DOMAIN kfd

\* C26: in a PerfStatCounters every slot that createCounterFds has marked
\* unsupported lies inside values and inside prevValues, so the two zeroing
\* writes of the unsupported branch were in bounds, and no write has faulted.
C26_WritesInBounds ==
    (kind = "group" /\ 0 \in DOMAIN gs)
    => /\ proc # "crashed"
       /\ \A i \in DOMAIN gs[0][0].fds :
             gs[0][0].fds[i] = FdUnsupported
             => i \in DOMAIN gs[0][0].values /\ i \in DOMAIN gs[0][0].prevValues

\* C27: after disable() no slot of the group holds an open descriptor, every
\* current and previous value is zero and the slots marked unsupported are
\* still marked; a disable() of a group that has no open descriptor (a second
\* disable(), or the one of the sensor destructor after a shutdown) changes
\* nothing and makes no system call.
AllShutDown == \A p \in DOMAIN sd : sd[p]
C27_DisableIsIdempotent ==
    [][/\ GroupDisable
          => /\ \A i \in DOMAIN gs'[0][0].fds :
                   /\ gs'[0][0].fds[i] \in {FdClosed, FdUnsupported}
                   /\ gs'[0][0].fds[i] \notin DOMAIN kfd'
                   /\ gs'[0][0].values[i] = 0 /\ gs'[0][0].prevValues[i] = 0
                   /\ gs[0][0].fds[i] = FdUnsupported => gs'[0][0].fds[i] = FdUnsupported
             /\ (\A i \in DOMAIN gs[0][0].fds : gs[0][0].fds[i] < 0)
                => gs' = gs /\ kfd' = kfd /\ log' = <<>>
       /\ (kind \in PerfKinds /\ Live /\ life' = "dead" /\ AllShutDown)
          => gs' = gs /\ kfd' = kfd /\ log' = <<>>]_vars
C27_Witness ==
    /\ kind = "group" /\ Live /\ phase = "disabled" /\ log = <<>>
    /\ Size(gs[0][0].fds) > 1 /\ gs[0][0].fds[0] = FdClosed
    /\ \E i \in DOMAIN gs[0][0].fds : gs[0][0].fds[i] = FdUnsupported

\* C28: enable() issues a reset and then an enable on every open descriptor
\* of the group, reenable() an enable and no reset, and neither issues a
\* control operation on a closed or unsupported slot; a sensor's constructor
\* enables the groups it has just constructed with enable(), and a sampling
\* cycle enables only groups whose descriptors it has just recreated, with
\* reenable().
Controls(l) == {k \in DOMAIN l : l[k].op \in {"reset", "enable"}}
OnOpenOnly(l) == \A k \in Controls(l) : l[k].fd >= 0 /\ l[k].live
ResetThenEnable(l) ==
    \A k \in Controls(l) :
       IF l[k].op = "reset"
       THEN k + 1 \in DOMAIN l /\ l[k + 1].op = "enable" /\ l[k + 1].fd = l[k].fd
       ELSE k > 1 /\ l[k - 1].op = "reset" /\ l[k - 1].fd = l[k].fd
EnableOnly(l) == \A k \in Controls(l) : l[k].op = "enable"
Covered(l, g) == \A i \in DOMAIN g.fds :
                    g.fds[i] >= 0 => \E k \in Controls(l) : l[k].fd = g.fds[i]
SameGroup(a, b) == a.pos = b.pos /\ a.grp = b.grp
JustOpened(l) ==
    \A k \in Controls(l) :
       \E h \in 1..(k - 1) :
          /\ l[h].op = "open" /\ SameGroup(l[h], l[k])
          /\ \A m \in (h + 1)..(k - 1) :
                SameGroup(l[m], l[k]) => l[m].op \in {"open", "reset", "enable"}
C28_EnableAndReenable ==
    [][/\ GroupEnable
          => OnOpenOnly(log') /\ ResetThenEnable(log') /\ Covered(log', gs[0][0])
       /\ GroupReenable
          => OnOpenOnly(log') /\ EnableOnly(log') /\ Covered(log', gs[0][0])
       /\ (kind \in PerfKinds /\ life = "none")
          => OnOpenOnly(log') /\ ResetThenEnable(log') /\ JustOpened(log')
       /\ (kind \in PerfKinds /\ life = "live" /\ ~UNCHANGED <<log, out, proc>>)
          => OnOpenOnly(log') /\ EnableOnly(log') /\ JustOpened(log')]_vars
C28_Witness ==
    /\ kind = "core" /\ Live /\ did[0] = "reactivate" /\ out # <<>>
    /\ Controls(log) # {} /\ EnableOnly(log)
    /\ \E i \in DOMAIN gs[0][1].fds : gs[0][1].fds[i] = FdUnsupported

\* C29: after an updateValuesFromSystem() call of any sensor, prevValues is
\* the values vector as it was before the call and the vector written to the
\* output port is the new values vector.
SensorKinds == PerfKinds \cup PlainKinds
Acquired == /\ kind \in SensorKinds /\ Live /\ life' = "live" /\ proc' = "running"
            /\ ~UNCHANGED <<values, prevValues, out, log, dt, did>>
C29_RotateThenPublish ==
    [][Acquired => prevValues' = values /\ out' = values']_vars
C29_Witness ==
    /\ kind \in SensorKinds /\ Live /\ out = values
    /\ prevValues # values /\ prevValues # makeVector(width) /\ values # makeVector(width)

\* C30: measureReadLatency() returns a vector of length 1 and leaves the
\* sensor as one updateValuesFromSystem() would: the previous values are the
\* values from before the call, the port holds the new values, and the new
\* values, the stored energy counter, the time difference and the shut-down
\* state are those of one readFromSystem() from the state before the call.
OneReadFromSystem ==
    \/ /\ kind = "time"
       /\ \E t \in 0..MaxDt : values' = TimeReadFromSystem(World, t).values
       /\ UNCHANGED <<energyCtr, dt, sd, gs, kfd>>
    \/ /\ kind \in {"cpupower", "drampower"}
       /\ \E e \in [0..(files - 1) -> 0..MaxEnergy] :
             LET r == PowerReadFromSystem(World, energyCtr, e, dt')
             IN values' = r.w.values /\ energyCtr' = r.energyCtr
       /\ UNCHANGED <<sd, gs, kfd>>
    \/ /\ kind = "cputemp"
       /\ \E t \in [0..(files - 1) -> TempReadings] :
             values' = TempReadFromSystem(World, t).values
       /\ UNCHANGED <<energyCtr, dt, sd, gs, kfd>>
    \/ /\ kind = "core"
       /\ \E badFd \in BadFds, ans \in Answers(CoreEventSet) :
             LET w == CoreReadFromSystem(World, unitStatus, coreIds[0], dt', badFd, ans,
                                         "silent")
             IN values' = w.values /\ sd' = w.sd /\ gs' = w.gs /\ kfd' = w.kfd
                /\ proc' = w.proc
       /\ UNCHANGED energyCtr
C30_LatencyIsOneAcquisition ==
    [][(latencyResults' # latencyResults \/ MeasureReadLatency)
       => /\ DOMAIN latencyResults' = 0..0
          /\ prevValues' = values
          /\ proc' = "running" => out' = values'
          /\ OneReadFromSystem]_vars
C30_Witness ==
    /\ kind = "core" /\ Live /\ Size(latencyResults) = 1
    /\ sd[0] /\ did[0] = "shutdown" /\ prevValues # values

\* C31: in a sampling cycle of CorePerfSensor that updates its counters, BIPS
\* is the instruction delta over the elapsed nanoseconds and MPKI is 1000
\* times the delta of the second cache event over the instruction delta, 0
\* when the instruction delta is 0; in a cycle that shuts the sensor down or
\* reactivates it both outputs are 0.  The deltas are taken from the kernel's
\* counts at the cycle against the values stored by the cycle before.
CounterDelta(j, i) ==
    LET fd == gs[0][j].fds[i]
    IN (IF fd \in DOMAIN kfd THEN kfd[fd].count ELSE 0) - gs[0][j].values[i]
CoreCycle == kind = "core" /\ Live /\ cycle' # cycle /\ proc' = "running"
CoreTransition == unitStatus[coreIds[0]] # ~sd[0]
C31_BipsAndMpki ==
    [][CoreCycle
       => LET inst == CounterDelta(0, 0)
              miss == CounterDelta(1, 1)
              bips == values'[0]
              mpki == values'[1]
          IN IF CoreTransition
             THEN bips = D(0) /\ mpki = D(0)
             ELSE /\ dt' > 0 => bips[2] > 0 /\ bips[1] * dt' = inst * bips[2]
                  /\ inst # 0 => mpki[2] > 0 /\ mpki[1] * inst = 1000 * miss * mpki[2]
                  /\ inst = 0 => mpki = D(0)]_vars
C31_Witness ==
    /\ kind = "core" /\ Live /\ did[0] = "update" /\ dt > 0
    /\ values[0][1] > 0 /\ values[1] = D(1000) /\ out = values

\* C32: the first acquisition of a power sensor after construction takes its
\* energy delta against a stored value of 0: with d > 0 elapsed since
\* construction it publishes the whole cumulative reading over d.  Every
\* acquisition stores its reading, and a later one publishes the difference
\* to the reading stored by the one before over the time elapsed.
FirstAcquisition == out = <<>>
C32_FirstSampleFromZero ==
    [][UpdatePower
       => \E e \in [0..(files - 1) -> 0..MaxEnergy] :
             LET reading == SumTo(e, files)
                 baseline == IF FirstAcquisition THEN 0 ELSE energyCtr
                 power == out'[0]
             IN /\ energyCtr' = reading
                /\ dt' > 0 => /\ power[2] > 0
                              /\ power[1] * dt' = (reading - baseline) * power[2]
                /\ dt' = 0 => power = D(0)]_vars
C32_Witness ==
    /\ kind \in {"cpupower", "drampower"} /\ Live /\ out # <<>>
    /\ prevValues[0] = D(0) /\ dt > 0 /\ energyCtr > 0
    /\ out[0][1] * dt = energyCtr * out[0][2]

\* C33: a CPUTempSensor whose construction did not end the process has at
\* least one temperature location to read in its acquisitions: construction
\* ends the process when no candidate location is accessible.
C33_SomethingToRead ==
    (kind = "cputemp" /\ Live) => files >= 1

\* C34: each call of postprocess() shifts the 10-entry window by one, dropping
\* the oldest entry and appending the inverted class of the new prediction,
\* and the call reports "Ictal" exactly when the new prediction and the nine
\* before it are all of the ictal class 0, which is when the sum of the
\* window exceeds the threshold 9.
LastTen(h) == {h[k] : k \in (Len(h) - 9)..Len(h)}
C34_IctalAfterTenInARow ==
    [][(kind = "eeg" /\ history' # history)
       => LET new == history'[Len(history')]
          IN /\ \A i \in 0..8 : predictions'[i] = predictions[i + 1]
             /\ predictions'[9] = 1 - new
             /\ DOMAIN predictions' = 0..9
             /\ printed' = "Ictal" <=> /\ Len(history') >= 10
                                       /\ LastTen(history') = {0}
             /\ printed' = "Ictal" <=> SumTo(predictions', 10) > 9]_vars
C34_Witness ==
    /\ kind = "eeg" /\ printed = "Ictal" /\ Len(history) = MaxCalls
    /\ history[1] = 1 /\ predictions = Fill(10, 1)
====
